---- MODULE Spec2Model ----
(***************************************************************************)
(* Model of the ECS core of AsciiRPG3 (src/ecs_core.py): the World with    *)
(* its entity set, per-type component tables, query cache, event queue     *)
(* and system scheduler.                                                   *)
(***************************************************************************)
EXTENDS Integers, Sequences, FiniteSets, TLC

\* ------------------------------------------------------------------ bounds
MaxEntities == 2   \* how many EntityIDs create_entity may issue in a run
MaxValue    == 2   \* distinct component instances per component type
NumSystems  == 2   \* distinct System objects
MaxEvents   == 2   \* longest event queue an outside caller builds up
MaxTicks    == 2   \* how many times World.update is called in a run
MaxArity    == 2   \* longest component_types tuple passed to a query

\* ------------------------------------------------------------ value spaces
EntityIDs == 1..MaxEntities
Systems   == 1..NumSystems
\* two of the Component subclasses, the ones test_core_ecs attaches
Types     == {"PositionComponent", "NameComponent"}
Component == [type : Types, val : 1..MaxValue]
\* one instance of each component type
Prototypes == {c \in Component : c.val = 1}
\* Python's None, as the Optional[Component] result of a lookup
None      == [type |-> "NoneType", val |-> 0]
NoEntity  == 0

\* the component_types tuples a caller can pass: length 1..MaxArity
TypeTuples == UNION {[1..n -> Types] : n \in 1..MaxArity}

VARIABLES
    entities,          \* World.entities            : set of EntityID
    components,        \* World.components          : type -> (entity -> component)
    systems,           \* World.systems             : list of System
    events,            \* World.events              : list of events
    _entity_cache,     \* World._entity_cache       : frozenset(types) -> set of EntityID
    _next_update_id,   \* World._next_update_id
    issued,            \* EntityIDs handed out so far by EntityID()
    destroyed,         \* EntityIDs for which destroy_entity returned True
    lastCall,          \* the most recent call on the World and its outcome
    pos,               \* World.update's loop position (0: no update running)
    passLog            \* per system run in the current/last update: what it saw and did

worldVars == <<entities, components, systems, events, _entity_cache,
               issued, destroyed, lastCall>>
schedVars == <<_next_update_id, pos, passLog>>
vars      == <<entities, components, systems, events, _entity_cache,
               _next_update_id, issued, destroyed, lastCall, pos, passLog>>

\* ----------------------------------------------------------------- helpers
Range(s) == {s[i] : i \in DOMAIN s}

Call(op, entity, component, key, result, ok, raised, old, hooks) ==
    [op |-> op, entity |-> entity, component |-> component, key |-> key,
     result |-> result, ok |-> ok, raised |-> raised, old |-> old,
     hooks |-> hooks, hit |-> FALSE]

NoCall == Call("__init__", NoEntity, None, {}, {}, TRUE, FALSE, None, <<>>)

\* for system in self.systems: system.<hook>(self, entity)
Hooks(hook, entity) ==
    [i \in 1..Len(systems) |-> [hook |-> hook, system |-> systems[i], entity |-> entity]]

\* dict.get(key) / dict.pop(key, None) on one component table
DictGet(table, entity) == IF entity \in DOMAIN table THEN table[entity] ELSE None
DictPop(table, entity) == [e \in (DOMAIN table) \ {entity} |-> table[e]]
DictSet(table, entity, c) ==
    [e \in (DOMAIN table) \cup {entity} |-> IF e = entity THEN c ELSE table[e]]

\* bool(x) of a lookup result: Component subclasses are plain dataclasses
\* with neither __bool__ nor __len__, so only None is falsy
Truthy(c) == c # None

\* ------------------------------------------------------- read-only lookups
get_component(entity, component_type) ==
    IF component_type \notin DOMAIN components
    THEN None
    ELSE DictGet(components[component_type], entity)

has_component(entity, component_type) ==
    /\ component_type \in DOMAIN components
    /\ entity \in DOMAIN components[component_type]

has_components(entity, component_types) ==
    \A i \in DOMAIN component_types : has_component(entity, component_types[i])

get_component_count(component_type) ==
    IF component_type \in DOMAIN components
    THEN Cardinality(DOMAIN components[component_type])
    ELSE 0

\* uuid4 as it would be if EntityID.id were a class attribute, evaluated once
\* and shared by every EntityID
uuid4_SharedDefault == CHOOSE id \in EntityIDs : \A other \in EntityIDs : id <= other

\* uuid.uuid4(): an identity that was never issued before
uuid4 == CHOOSE id \in EntityIDs \ issued : \A other \in EntityIDs \ issued : id <= other

\* ------------------------------------------------------- World operations
\* Each operation gives the new values of the World's own fields and of the
\* call record; who calls it (an outside caller, or a system in the middle
\* of World.update) is decided by CallerContext / SystemUpdate below.

EmptyDict == <<>>

\* World._invalidate_cache: self._entity_cache.clear()
_invalidate_cache == EmptyDict

\* World.create_entity
create_entity ==
    /\ issued # EntityIDs
    /\ LET entity == uuid4 IN
        /\ issued' = issued \cup {entity}
        /\ entities' = entities \cup {entity}
        /\ _entity_cache' = _invalidate_cache
        /\ lastCall' = Call("create_entity", entity, None, {}, {}, TRUE, FALSE, None, <<>>)
    /\ UNCHANGED <<components, systems, events, destroyed>>

\* destroy_entity as it would be if it only dropped the entity from the live
\* set and left the component tables alone
destroy_entity_KeepsComponents(entity) ==
    IF entity \notin entities
    THEN /\ lastCall' = Call("destroy_entity", entity, None, {}, {}, FALSE, FALSE, None, <<>>)
         /\ UNCHANGED <<entities, components, systems, events, _entity_cache,
                        issued, destroyed>>
    ELSE /\ entities' = entities \ {entity}
         /\ _entity_cache' = _invalidate_cache
         /\ destroyed' = destroyed \cup {entity}
         /\ lastCall' = Call("destroy_entity", entity, None, {}, {}, TRUE, FALSE, None,
                             Hooks("on_entity_removed", entity))
         /\ UNCHANGED <<components, systems, events, issued>>

\* destroy_entity as it would be without the early return for an entity that
\* is not live (set.discard and dict.pop(entity, None) never raise)
destroy_entity_NoLivenessCheck(entity) ==
    /\ components' = [t \in DOMAIN components |-> DictPop(components[t], entity)]
    /\ entities' = entities \ {entity}
    /\ _entity_cache' = _invalidate_cache
    /\ destroyed' = destroyed \cup {entity}
    /\ lastCall' = Call("destroy_entity", entity, None, {}, {}, TRUE, FALSE, None,
                        Hooks("on_entity_removed", entity))
    /\ UNCHANGED <<systems, events, issued>>

\* World.destroy_entity
destroy_entity(entity) ==
    IF entity \notin entities
    THEN /\ lastCall' = Call("destroy_entity", entity, None, {}, {}, FALSE, FALSE, None, <<>>)
         /\ UNCHANGED <<entities, components, systems, events, _entity_cache,
                        issued, destroyed>>
    ELSE /\ components' = [t \in DOMAIN components |-> DictPop(components[t], entity)]
         /\ entities' = entities \ {entity}
         /\ _entity_cache' = _invalidate_cache
         /\ destroyed' = destroyed \cup {entity}
         /\ lastCall' = Call("destroy_entity", entity, None, {}, {}, TRUE, FALSE, None,
                             Hooks("on_entity_removed", entity))
         /\ UNCHANGED <<systems, events, issued>>

\* add_component as it would be if an existing instance were kept
\* (dict.setdefault instead of assignment)
add_component_KeepsOld(entity, component) ==
    IF entity \notin entities
    THEN /\ lastCall' = Call("add_component", entity, component, {}, {}, FALSE, TRUE, None, <<>>)
         /\ UNCHANGED <<entities, components, systems, events, _entity_cache,
                        issued, destroyed>>
    ELSE LET component_type == component.type
             table == IF component_type \in DOMAIN components
                      THEN components[component_type] ELSE EmptyDict
             old_component == DictGet(table, entity)
         IN /\ components' = [t \in (DOMAIN components) \cup {component_type} |->
                                 IF t = component_type
                                 THEN DictSet(table, entity,
                                              IF old_component = None
                                              THEN component ELSE old_component)
                                 ELSE components[t]]
            /\ _entity_cache' = _invalidate_cache
            /\ lastCall' = Call("add_component", entity, component, {}, {}, TRUE, FALSE,
                                old_component,
                                IF old_component = None
                                THEN Hooks("on_entity_added", entity) ELSE <<>>)
            /\ UNCHANGED <<entities, systems, events, issued, destroyed>>

\* add_component as it would be without the check that the entity is live
add_component_NoLivenessCheck(entity, component) ==
    LET component_type == component.type
        table == IF component_type \in DOMAIN components
                 THEN components[component_type] ELSE EmptyDict
        old_component == DictGet(table, entity)
    IN /\ components' = [t \in (DOMAIN components) \cup {component_type} |->
                            IF t = component_type
                            THEN DictSet(table, entity, component)
                            ELSE components[t]]
       /\ _entity_cache' = _invalidate_cache
       /\ lastCall' = Call("add_component", entity, component, {}, {}, TRUE, FALSE,
                           old_component,
                           IF old_component = None
                           THEN Hooks("on_entity_added", entity) ELSE <<>>)
       /\ UNCHANGED <<entities, systems, events, issued, destroyed>>

\* add_component as it would be if it notified the systems on every call,
\* overwrites included
add_component_AlwaysNotifies(entity, component) ==
    IF entity \notin entities
    THEN /\ lastCall' = Call("add_component", entity, component, {}, {}, FALSE, TRUE, None, <<>>)
         /\ UNCHANGED <<entities, components, systems, events, _entity_cache,
                        issued, destroyed>>
    ELSE LET component_type == component.type
             table == IF component_type \in DOMAIN components
                      THEN components[component_type] ELSE EmptyDict
             old_component == DictGet(table, entity)
         IN /\ components' = [t \in (DOMAIN components) \cup {component_type} |->
                                 IF t = component_type
                                 THEN DictSet(table, entity, component)
                                 ELSE components[t]]
            /\ _entity_cache' = _invalidate_cache
            /\ lastCall' = Call("add_component", entity, component, {}, {}, TRUE, FALSE,
                                old_component,
                                Hooks("on_entity_added", entity))
            /\ UNCHANGED <<entities, systems, events, issued, destroyed>>

\* World.add_component
add_component(entity, component) ==
    IF entity \notin entities
    THEN \* raise ValueError(f"Entity {entity} does not exist")
         /\ lastCall' = Call("add_component", entity, component, {}, {}, FALSE, TRUE, None, <<>>)
         /\ UNCHANGED <<entities, components, systems, events, _entity_cache,
                        issued, destroyed>>
    ELSE LET component_type == component.type
             table == IF component_type \in DOMAIN components
                      THEN components[component_type] ELSE EmptyDict
             old_component == DictGet(table, entity)
         IN /\ components' = [t \in (DOMAIN components) \cup {component_type} |->
                                 IF t = component_type
                                 THEN DictSet(table, entity, component)
                                 ELSE components[t]]
            /\ _entity_cache' = _invalidate_cache
            /\ lastCall' = Call("add_component", entity, component, {}, {}, TRUE, FALSE,
                                old_component,
                                IF old_component = None
                                THEN Hooks("on_entity_added", entity) ELSE <<>>)
            /\ UNCHANGED <<entities, systems, events, issued, destroyed>>

\* remove_component as it would be if it forgot to invalidate the cache
remove_component_NoInvalidate(entity, component_type) ==
    IF component_type \notin DOMAIN components
    THEN /\ lastCall' = Call("remove_component", entity, None, {component_type}, {},
                             FALSE, FALSE, None, <<>>)
         /\ UNCHANGED <<entities, components, systems, events, _entity_cache,
                        issued, destroyed>>
    ELSE LET removed == DictGet(components[component_type], entity) IN
         /\ components' = [components EXCEPT
                              ![component_type] = DictPop(components[component_type], entity)]
         /\ lastCall' = Call("remove_component", entity, None, {component_type}, {},
                             removed # None, FALSE, removed,
                             IF Truthy(removed)
                             THEN Hooks("on_entity_removed", entity) ELSE <<>>)
         /\ UNCHANGED <<entities, systems, events, _entity_cache, issued, destroyed>>

\* remove_component as it would be with add_component's liveness check
remove_component_RaisesOnMissing(entity, component_type) ==
    IF entity \notin entities
    THEN /\ lastCall' = Call("remove_component", entity, None, {component_type}, {},
                             FALSE, TRUE, None, <<>>)
         /\ UNCHANGED <<entities, components, systems, events, _entity_cache,
                        issued, destroyed>>
    ELSE IF component_type \notin DOMAIN components
    THEN /\ lastCall' = Call("remove_component", entity, None, {component_type}, {},
                             FALSE, FALSE, None, <<>>)
         /\ UNCHANGED <<entities, components, systems, events, _entity_cache,
                        issued, destroyed>>
    ELSE LET removed == DictGet(components[component_type], entity) IN
         /\ components' = [components EXCEPT
                              ![component_type] = DictPop(components[component_type], entity)]
         /\ _entity_cache' = IF Truthy(removed) THEN _invalidate_cache ELSE _entity_cache
         /\ lastCall' = Call("remove_component", entity, None, {component_type}, {},
                             removed # None, FALSE, removed,
                             IF Truthy(removed)
                             THEN Hooks("on_entity_removed", entity) ELSE <<>>)
         /\ UNCHANGED <<entities, systems, events, issued, destroyed>>

\* remove_component as it would be with the invalidation and the hook calls
\* outside the `if removed:` block
remove_component_AlwaysInvalidates(entity, component_type) ==
    IF component_type \notin DOMAIN components
    THEN /\ lastCall' = Call("remove_component", entity, None, {component_type}, {},
                             FALSE, FALSE, None, <<>>)
         /\ UNCHANGED <<entities, components, systems, events, _entity_cache,
                        issued, destroyed>>
    ELSE LET removed == DictGet(components[component_type], entity) IN
         /\ components' = [components EXCEPT
                              ![component_type] = DictPop(components[component_type], entity)]
         /\ _entity_cache' = _invalidate_cache
         /\ lastCall' = Call("remove_component", entity, None, {component_type}, {},
                             removed # None, FALSE, removed,
                             Hooks("on_entity_removed", entity))
         /\ UNCHANGED <<entities, systems, events, issued, destroyed>>

\* World.remove_component
remove_component(entity, component_type) ==
    IF component_type \notin DOMAIN components
    THEN /\ lastCall' = Call("remove_component", entity, None, {component_type}, {},
                             FALSE, FALSE, None, <<>>)
         /\ UNCHANGED <<entities, components, systems, events, _entity_cache,
                        issued, destroyed>>
    ELSE LET removed == DictGet(components[component_type], entity) IN
         /\ components' = [components EXCEPT
                              ![component_type] = DictPop(components[component_type], entity)]
         /\ _entity_cache' = IF Truthy(removed) THEN _invalidate_cache ELSE _entity_cache
         /\ lastCall' = Call("remove_component", entity, None, {component_type}, {},
                             removed # None, FALSE, removed,
                             IF Truthy(removed)
                             THEN Hooks("on_entity_removed", entity) ELSE <<>>)
         /\ UNCHANGED <<entities, systems, events, issued, destroyed>>

\* the loop of get_entities_with_components over component_types[1:]
RECURSIVE IntersectRest(_, _, _)
IntersectRest(result, component_types, i) ==
    IF i > Len(component_types)
    THEN result
    ELSE IF component_types[i] \notin DOMAIN components
         THEN {}                                       \* result = set(); break
         ELSE IntersectRest(result \cap DOMAIN components[component_types[i]],
                            component_types, i + 1)

\* the uncached computation as it would be without the loop over the
\* remaining types
ComputeQuery_FirstTypeOnly(component_types) ==
    IF component_types[1] \notin DOMAIN components
    THEN {}
    ELSE DOMAIN components[component_types[1]]

\* the uncached part of get_entities_with_components
ComputeQuery(component_types) ==
    LET first == IF component_types[1] \notin DOMAIN components
                 THEN {}
                 ELSE DOMAIN components[component_types[1]]
    IN IntersectRest(first, component_types, 2)

\* what get_entities_with_components returns: set() for no types, the
\* cached set on a hit, the computed set on a miss
QueryReturn(component_types) ==
    IF component_types = <<>>
    THEN {}
    ELSE IF Range(component_types) \in DOMAIN _entity_cache
         THEN _entity_cache[Range(component_types)]
         ELSE ComputeQuery(component_types)

\* World.get_entities_with_components
get_entities_with_components(component_types) ==
    LET cache_key == Range(component_types)
        hit == component_types # <<>> /\ cache_key \in DOMAIN _entity_cache
        result == QueryReturn(component_types)
    IN /\ _entity_cache' =
              IF component_types = <<>> \/ hit
              THEN _entity_cache
              ELSE [k \in (DOMAIN _entity_cache) \cup {cache_key} |->
                       IF k = cache_key THEN result ELSE _entity_cache[k]]
       /\ lastCall' = [Call("query", NoEntity, None, cache_key, result,
                            TRUE, FALSE, None, <<>>) EXCEPT !.hit = hit]
       /\ UNCHANGED <<entities, components, systems, events, issued, destroyed>>

\* add_system as it would be if it put the new system first
\* (list.insert(0, system))
add_system_Prepends(system) ==
    /\ systems' = IF system \notin Range(systems) THEN <<system>> \o systems ELSE systems
    /\ lastCall' = Call("add_system", NoEntity, None, {}, {}, TRUE, FALSE, None, <<>>)
    /\ UNCHANGED <<entities, components, events, _entity_cache, issued, destroyed>>

\* World.add_system
add_system(system) ==
    /\ systems' = IF system \notin Range(systems) THEN Append(systems, system) ELSE systems
    /\ lastCall' = Call("add_system", NoEntity, None, {}, {}, TRUE, FALSE, None, <<>>)
    /\ UNCHANGED <<entities, components, events, _entity_cache, issued, destroyed>>

\* list.remove(x): drops the first occurrence
ListRemove(list, x) ==
    LET i == CHOOSE k \in DOMAIN list : list[k] = x /\ \A j \in 1..(k - 1) : list[j] # x
    IN SubSeq(list, 1, i - 1) \o SubSeq(list, i + 1, Len(list))

\* World.remove_system
remove_system(system) ==
    /\ systems' = IF system \in Range(systems) THEN ListRemove(systems, system) ELSE systems
    /\ lastCall' = Call("remove_system", NoEntity, None, {}, {},
                        system \in Range(systems), FALSE, None, <<>>)
    /\ UNCHANGED <<entities, components, events, _entity_cache, issued, destroyed>>

\* an event record: who appended it (scheduler position, 0 for an outside
\* caller) and during which update
Event == [pos |-> pos, tick |-> _next_update_id]

\* World.add_event
add_event(event) ==
    /\ events' = Append(events, event)
    /\ lastCall' = Call("add_event", NoEntity, None, {}, {}, TRUE, FALSE, None, <<>>)
    /\ UNCHANGED <<entities, components, systems, _entity_cache, issued, destroyed>>

\* clear_events as it would be if it rebound a local name and left the
\* World's list as it was
clear_events_KeepsQueue == events

\* World.clear_events
clear_events == <<>>

\* -------------------------------------------------------------------- Init
Init ==
    /\ entities = {}
    /\ components = <<>>
    /\ systems = <<>>
    /\ events = <<>>
    /\ _entity_cache = <<>>
    /\ _next_update_id = 0
    /\ issued = {}
    /\ destroyed = {}
    /\ lastCall = NoCall
    /\ pos = 0
    /\ passLog = <<>>

\* ------------------------------------------------------ calls from outside
\* A collaborator (dungeon loader, input handler, test) calls the World
\* between updates: the runtime is single-threaded, so never during one.
CallerContext(call) ==
    /\ pos = 0
    /\ call
    /\ passLog' = <<>>
    /\ UNCHANGED <<_next_update_id, pos>>

CreateEntity == CallerContext(create_entity)
DestroyEntity(entity) == CallerContext(destroy_entity(entity))
AddComponent(entity, component) == CallerContext(add_component(entity, component))
RemoveComponent(entity, component_type) ==
    CallerContext(remove_component(entity, component_type))
Query(component_types) == CallerContext(get_entities_with_components(component_types))
AddSystem(system) == CallerContext(add_system(system))
RemoveSystem(system) == CallerContext(remove_system(system))
AddEvent == Len(events) < MaxEvents /\ CallerContext(add_event(Event))

\* ------------------------------------------------------------ World.update
\* World.update, entry: self._next_update_id += 1, then the loop starts
UpdateBegin ==
    /\ pos = 0
    /\ _next_update_id < MaxTicks
    /\ _next_update_id' = _next_update_id + 1
    /\ pos' = 1
    /\ passLog' = <<>>
    /\ UNCHANGED worldVars

\* what a System.update does to the scheduler's state: it reads the queue
\* and may append to it (world.add_event in process_movement, process_damage,
\* _process_fire, process_interaction, ...); the systems of the repository
\* neither clear the queue nor change the systems list
SystemCalls == add_event(Event)

\* one system run: the queue it found on entry, what it appended, how it ended
LogEntry(raised) ==
    [system |-> systems[pos], seen |-> events,
     emitted |-> SubSeq(events', Len(events) + 1, Len(events')), raised |-> raised]

\* the loop iteration as it would be without the try/except: an error in a
\* system leaves World.update at once, the remaining systems and
\* clear_events are skipped
SystemUpdate_Propagates(raises) ==
    /\ pos # 0
    /\ pos <= Len(systems)
    /\ IF raises
       THEN /\ \E appends \in BOOLEAN :
                   events' = IF appends THEN Append(events, Event) ELSE events
            /\ lastCall' = Call("update", NoEntity, None, {}, {}, FALSE, TRUE, None, <<>>)
            /\ UNCHANGED <<entities, components, systems, _entity_cache, issued, destroyed>>
            /\ pos' = 0
       ELSE /\ \/ SystemCalls
               \/ UNCHANGED worldVars
            /\ pos' = pos + 1
    /\ passLog' = Append(passLog, LogEntry(raises))
    /\ UNCHANGED _next_update_id

\* World.update, one iteration of the loop:
\*     try: system.update(self, dt)
\*     except Exception as e: print(...)
\* the system either returns or raises, before or after appending
SystemUpdate(raises) ==
    /\ pos # 0
    /\ pos <= Len(systems)
    /\ \/ SystemCalls
       \/ UNCHANGED worldVars
    /\ passLog' = Append(passLog, LogEntry(raises))
    /\ pos' = pos + 1
    /\ UNCHANGED _next_update_id

\* the end of World.update as it would be without the call of clear_events
UpdateEnd_NoClear ==
    /\ pos # 0
    /\ pos > Len(systems)
    /\ pos' = 0
    /\ lastCall' = Call("update", NoEntity, None, {}, {}, TRUE, FALSE, None, <<>>)
    /\ UNCHANGED <<entities, components, systems, events, _entity_cache, issued,
                   destroyed, _next_update_id, passLog>>

\* World.update, after the loop: self.clear_events(), return
UpdateEnd ==
    /\ pos # 0
    /\ pos > Len(systems)
    /\ events' = clear_events
    /\ pos' = 0
    /\ lastCall' = Call("update", NoEntity, None, {}, {}, TRUE, FALSE, None, <<>>)
    /\ UNCHANGED <<entities, components, systems, _entity_cache, issued, destroyed,
                   _next_update_id, passLog>>

\* -------------------------------------------------------------------- Next
\* The component store as its collaborators drive it between updates.
Next ==
    \/ CreateEntity
    \/ \E entity \in EntityIDs : DestroyEntity(entity)
    \/ \E entity \in EntityIDs, component \in Component : AddComponent(entity, component)
    \/ \E entity \in EntityIDs, component_type \in Types :
           RemoveComponent(entity, component_type)
    \/ \E component_types \in TypeTuples \cup {<<>>} : Query(component_types)

Spec == Init /\ [][Next]_vars

\* The same store with systems registered, for what the calls tell the
\* systems' hooks; which instance of a type is attached plays no part in
\* that, so one instance per type is used.
NextHooks ==
    \/ CreateEntity
    \/ \E entity \in EntityIDs : DestroyEntity(entity)
    \/ \E entity \in EntityIDs, component \in Prototypes : AddComponent(entity, component)
    \/ \E entity \in EntityIDs, component_type \in Types :
           RemoveComponent(entity, component_type)
    \/ \E component_types \in TypeTuples \cup {<<>>} : Query(component_types)
    \/ \E system \in Systems : AddSystem(system)
    \/ \E system \in Systems : RemoveSystem(system)

SpecHooks == Init /\ [][NextHooks]_vars

\* The scheduler: systems are registered, callers queue events, World.update
\* runs the systems, and the systems append to the queue from inside the pass.
NextTick ==
    \/ \E system \in Systems : AddSystem(system)
    \/ \E system \in Systems : RemoveSystem(system)
    \/ AddEvent
    \/ UpdateBegin
    \/ \E raises \in BOOLEAN : SystemUpdate(raises)
    \/ UpdateEnd

SpecTick == Init /\ [][NextTick]_vars

\* ----------------------------------------------- the caller's returned set
\* get_entities_with_components as it would be without its two .copy()
\* calls: the set it returns is the set the cache holds under the key
ReturnedObjectInCache_NoCopy(hit, cache_key) == {cache_key}

\* the cache keys under which the cache holds the very set object that
\* get_entities_with_components returned:
\*     hit:   return self._entity_cache[cache_key].copy()
\*     miss:  self._entity_cache[cache_key] = result.copy(); return result
\* a copy is a new object, so on a hit the caller gets a new one and on a
\* miss the cache does; result itself is built by set(...) from the tables'
\* keys and shares nothing with them
ReturnedObjectInCache(hit, cache_key) == {}

\* the caller adds an entity to the set a query returned, or removes it
\* (set.add / set.discard on the returned object): every place that holds
\* the same object sees the change
MutateReturned(entity) ==
    /\ pos = 0
    /\ lastCall.op \in {"query", "mutate_result"}
    /\ LET mutated == IF entity \in lastCall.result
                      THEN lastCall.result \ {entity}
                      ELSE lastCall.result \cup {entity}
       IN /\ lastCall' = [lastCall EXCEPT !.op = "mutate_result", !.result = mutated]
          /\ _entity_cache' =
                 [k \in DOMAIN _entity_cache |->
                     IF k \in ReturnedObjectInCache(lastCall.hit, lastCall.key)
                     THEN mutated ELSE _entity_cache[k]]
    /\ UNCHANGED <<entities, components, systems, events, issued, destroyed,
                   _next_update_id, pos, passLog>>

\* The component store with a caller that changes the sets it is handed.
NextCopy ==
    \/ CreateEntity
    \/ \E entity \in EntityIDs : DestroyEntity(entity)
    \/ \E entity \in EntityIDs, component \in Prototypes : AddComponent(entity, component)
    \/ \E entity \in EntityIDs, component_type \in Types :
           RemoveComponent(entity, component_type)
    \/ \E component_types \in TypeTuples \cup {<<>>} : Query(component_types)
    \/ \E entity \in EntityIDs : MutateReturned(entity)

SpecCopy == Init /\ [][NextCopy]_vars

\* ================================================================== claims

\* the entities that have an instance of every type of the set, read off
\* the component tables one entity and one type at a time
Having(type_set) ==
    {e \in EntityIDs : \A t \in type_set : has_component(e, t)}

\* C1: every query over at least one type returns exactly the entities that
\* have every requested type at the moment of the call, and no entry the
\* cache holds differs from what a recomputation over the tables gives.
C1_QueryNeverStale ==
    /\ (lastCall.op = "query" /\ lastCall.key # {})
           => lastCall.result = Having(lastCall.key)
    /\ \A component_types \in TypeTuples :
           QueryReturn(component_types) = Having(Range(component_types))
    /\ \A k \in DOMAIN _entity_cache : _entity_cache[k] = Having(k)

\* a query answered from the cache, with entities in it, in a world where
\* entities were destroyed and others still carry components
C1_Witness ==
    /\ lastCall.op = "query"
    /\ lastCall.hit
    /\ Cardinality(lastCall.key) = 2
    /\ lastCall.result # {}
    /\ destroyed # {}

\* C6: an entity that was destroyed is not live, has no component of any
\* type, and is in no query result, cached or returned, from then on.
C6_DestroyedIsGone ==
    \A e \in destroyed :
        /\ e \notin entities
        /\ \A t \in Types : ~has_component(e, t) /\ get_component(e, t) = None
        /\ \A k \in DOMAIN _entity_cache : e \notin _entity_cache[k]
        /\ \A types \in TypeTuples : e \notin QueryReturn(types)
        /\ lastCall.op = "query" => e \notin lastCall.result

\* a query that returned entities after an entity was destroyed while
\* components are attached to the survivors
C6_Witness ==
    /\ destroyed # {}
    /\ lastCall.op = "query"
    /\ ~lastCall.hit
    /\ lastCall.result # {}

\* C7: add_component on a live entity makes get_component return the added
\* instance; when the entity already had an instance of that type the new
\* one replaces it and the type's table keeps its number of entities.
C7_AddThenGet ==
    [][\A e \in entities, c \in Component :
          (/\ lastCall'.op = "add_component"
           /\ lastCall'.entity = e
           /\ lastCall'.component = c) =>
              /\ get_component(e, c.type)' = c
              /\ has_component(e, c.type)
                    => get_component_count(c.type)' = get_component_count(c.type)
              /\ ~has_component(e, c.type)
                    => get_component_count(c.type)' = get_component_count(c.type) + 1]_vars

\* a second add_component of the same type with another instance
C7_Witness ==
    /\ lastCall.op = "add_component"
    /\ ~lastCall.raised
    /\ lastCall.old # None
    /\ lastCall.old # lastCall.component
    /\ get_component(lastCall.entity, lastCall.component.type) = lastCall.component

\* C8: in every reachable state query(A, B) returns query(A) \cap query(B),
\* and the same set as query(B, A), whichever of them the cache answers.
C8_QueryIsIntersection ==
    \A A \in Types, B \in Types :
        /\ QueryReturn(<<A, B>>) = QueryReturn(<<A>>) \cap QueryReturn(<<B>>)
        /\ QueryReturn(<<A, B>>) = QueryReturn(<<B, A>>)

\* right after a component was removed from one entity, another entity is
\* still the answer of the two-type query
C8_Witness ==
    /\ lastCall.op = "remove_component"
    /\ lastCall.ok
    /\ QueryReturn(<<"PositionComponent", "NameComponent">>) # {}
    /\ lastCall.entity \notin QueryReturn(<<"PositionComponent", "NameComponent">>)
    /\ QueryReturn(<<"PositionComponent">>) # QueryReturn(<<"NameComponent">>)

\* C9: add_component on an entity that is not live raises (the ValueError
\* that stands for EntityNotFound) and changes nothing: no table entry, no
\* cache invalidation, no hook call.
C9_AddToMissingEntityRaises ==
    [][(lastCall'.op = "add_component" /\ lastCall'.entity \notin entities) =>
          /\ lastCall'.raised
          /\ lastCall'.hooks = <<>>
          /\ UNCHANGED <<entities, components, _entity_cache, systems, events>>]_vars

\* add_component on a destroyed entity while systems are registered and the
\* cache holds an entry
C9_Witness ==
    /\ lastCall.op = "add_component"
    /\ lastCall.raised
    /\ lastCall.entity \in destroyed
    /\ systems # <<>>
    /\ DOMAIN _entity_cache # {}

\* C10 as stated: remove_component on an entity that is not live raises,
\* like add_component does.
C10_RemoveFromMissingEntityRaises ==
    (lastCall.op = "remove_component" /\ lastCall.entity \notin entities)
        => lastCall.raised

\* C10, amended: remove_component on an entity that is not live raises
\* nothing; it returns False.
C10_RemoveFromMissingEntityReturnsFalse ==
    (lastCall.op = "remove_component" /\ lastCall.entity \notin entities)
        => ~lastCall.raised /\ ~lastCall.ok

\* remove_component on a destroyed entity, for a type that has a table
C10_Witness ==
    /\ lastCall.op = "remove_component"
    /\ lastCall.entity \in destroyed
    /\ lastCall.key \subseteq DOMAIN components

\* C11: remove_component(e, T) on an entity that has no T (no table for T, or
\* no entry of e in it) returns False, calls no hook and leaves the tables,
\* the live set, the queue, the systems and the cache as they were; on an
\* entity that has a T it returns True and has_component(e, T) is False
\* afterwards.
C11_RemoveReturnsWhatItDid ==
    [][\A e \in EntityIDs, t \in Types :
          (/\ lastCall'.op = "remove_component"
           /\ lastCall'.entity = e
           /\ lastCall'.key = {t}) =>
              IF has_component(e, t)
              THEN /\ lastCall'.ok
                   /\ ~has_component(e, t)'
              ELSE /\ ~lastCall'.ok
                   /\ ~lastCall'.raised
                   /\ lastCall'.hooks = <<>>
                   /\ UNCHANGED <<entities, components, _entity_cache, events,
                                  systems>>]_vars

\* remove_component on a live entity without the component, for a type that
\* has a table, while the cache holds an entry and a system is registered
C11_Witness ==
    /\ lastCall.op = "remove_component"
    /\ ~lastCall.ok
    /\ lastCall.entity \in entities
    /\ lastCall.key \subseteq DOMAIN components
    /\ DOMAIN _entity_cache # {}
    /\ systems # <<>>

\* C12: destroy_entity(id) returns True exactly when id was live at the
\* call; for an id that is not live (never created, or destroyed before) it
\* returns False, calls no hook and changes nothing.
C12_DestroyReturnsWhetherLive ==
    [][\A e \in EntityIDs :
          (lastCall'.op = "destroy_entity" /\ lastCall'.entity = e) =>
              /\ lastCall'.ok <=> e \in entities
              /\ e \notin entities'
              /\ e \notin entities =>
                    /\ lastCall'.hooks = <<>>
                    /\ UNCHANGED <<entities, components, _entity_cache, events,
                                   systems>>]_vars

\* a second destroy_entity of the same entity, while the cache holds an
\* entry and a system is registered
C12_Witness ==
    /\ lastCall.op = "destroy_entity"
    /\ ~lastCall.ok
    /\ lastCall.entity \in destroyed
    /\ DOMAIN _entity_cache # {}
    /\ systems # <<>>

\* C13: create_entity returns an identity that is not live at the call, and
\* the live set grows by exactly that one entity.
C13_CreateReturnsFreshEntity ==
    [][lastCall'.op = "create_entity" =>
          /\ lastCall'.entity \notin entities
          /\ entities' = entities \cup {lastCall'.entity}
          /\ Cardinality(entities') = Cardinality(entities) + 1]_vars

\* a create_entity after another entity was destroyed
C13_Witness ==
    /\ lastCall.op = "create_entity"
    /\ lastCall.entity \in entities
    /\ destroyed # {}

\* C28: in every reachable state every entity that is a key of a component
\* table is in World.entities: after any sequence of create_entity,
\* destroy_entity, add_component and remove_component calls, components
\* exist only on live entities.
C28_ComponentsOnlyOnLiveEntities ==
    \A component_type \in DOMAIN components :
        DOMAIN components[component_type] \subseteq entities

\* an entity was destroyed while it and a survivor held components: its
\* type's table is left empty, the survivor's is not
C28_Witness ==
    /\ lastCall.op = "destroy_entity"
    /\ lastCall.ok
    /\ lastCall.entity \in destroyed
    /\ \E component_type \in DOMAIN components : DOMAIN components[component_type] = {}
    /\ \E component_type \in DOMAIN components : DOMAIN components[component_type] # {}

C33_HooksOnFirstAttachOnly ==
    [][\A e \in entities :
          (lastCall'.op = "add_component" /\ lastCall'.entity = e) =>
              IF has_component(e, lastCall'.component.type)
              THEN lastCall'.hooks = <<>>
              ELSE /\ Len(lastCall'.hooks) = Len(systems)
                   /\ \A system \in Range(systems) :
                         Cardinality({i \in DOMAIN lastCall'.hooks :
                             lastCall'.hooks[i] = [hook |-> "on_entity_added",
                                                   system |-> system,
                                                   entity |-> e]}) = 1]_vars

\* with two systems registered, an entity that already has a component of
\* one type got its first component of another type, and both systems
\* were notified
C33_Witness ==
    /\ lastCall.op = "add_component"
    /\ lastCall.ok
    /\ lastCall.old = None
    /\ Len(systems) = 2
    /\ Len(lastCall.hooks) = 2
    /\ \E component_type \in Types :
          /\ component_type # lastCall.component.type
          /\ has_component(lastCall.entity, component_type)

\* ------------------------------------------------- claims on the scheduler

\* the systems World.update has invoked in the current (or last) pass
Invoked == [i \in 1..Len(passLog) |-> passLog[i].system]

\* World.update has returned and nothing was called since
UpdateReturned == lastCall.op = "update" /\ pos = 0

\* C2: when World.update returns the queue is empty, whatever the systems
\* appended or raised; every event in the queue was appended after the last
\* update returned or, by a system, during the one that is running.
C2_QueueEmptyAfterUpdate ==
    /\ UpdateReturned => events = <<>>
    /\ \A i \in DOMAIN events :
          IF pos = 0
          THEN events[i].pos = 0 /\ events[i].tick = _next_update_id
          ELSE \/ events[i].pos = 0 /\ events[i].tick = _next_update_id - 1
               \/ events[i].pos # 0 /\ events[i].tick = _next_update_id

\* the second update has returned; in it one system appended an event that
\* the next one found in the queue, and a system raised
C2_Witness ==
    /\ UpdateReturned
    /\ _next_update_id = 2
    /\ \E i \in DOMAIN passLog : passLog[i].raised
    /\ \E i \in DOMAIN passLog : \E j \in DOMAIN passLog[i].seen : passLog[i].seen[j].pos # 0

\* C3: what the system at position i appends is in the queue that every
\* system at a position j > i finds in the same pass, and the queue a system
\* finds holds no event of a system at its own or a later position, nor of
\* any system in an earlier pass.
C3_EventVisibility ==
    \A j \in DOMAIN passLog :
        /\ \A i \in 1..(j - 1) :
              Range(passLog[i].emitted) \subseteq Range(passLog[j].seen)
        /\ \A k \in DOMAIN passLog[j].seen :
              passLog[j].seen[k].pos # 0 =>
                  /\ passLog[j].seen[k].pos < j
                  /\ passLog[j].seen[k].tick = _next_update_id

\* in the second pass the first system appended an event after a system of
\* the first pass had appended one too, and the second system has run
C3_Witness ==
    /\ _next_update_id = 2
    /\ Len(passLog) = 2
    /\ passLog[1].emitted # <<>>
    /\ passLog[1].seen = <<>>
    /\ Len(passLog[2].seen) = 1

\* position of a system in a list without duplicates
IndexOf(list, x) == CHOOSE k \in DOMAIN list : list[k] = x

\* C4: a World.update that runs to its end has invoked every registered
\* system exactly once, in registration order: the systems list holds each
\* system once, a newly registered system goes last, and no call reorders
\* the systems already there.
C4_EverySystemOnceInOrder ==
    [][/\ (pos # 0 /\ pos' = 0) =>
             /\ Invoked = systems
             /\ \A sys \in Range(systems) :
                   Cardinality({i \in DOMAIN passLog : passLog[i].system = sys}) = 1
       /\ pos' # 0 => Invoked' = SubSeq(systems, 1, pos' - 1)
       /\ \A sys \in Range(systems') \ Range(systems) :
             systems'[Len(systems')] = sys
       /\ \A a \in Range(systems) \cap Range(systems'),
             b \in Range(systems) \cap Range(systems') :
             (IndexOf(systems, a) < IndexOf(systems, b))
                 <=> (IndexOf(systems', a) < IndexOf(systems', b))]_vars

\* an update over two systems has returned, the systems having been
\* registered in the order 2, 1
C4_Witness ==
    /\ UpdateReturned
    /\ systems = <<2, 1>>
    /\ Len(passLog) = 2

\* C5: when a system raises in its update, World.update still invokes all
\* systems after it, clears the queue and returns without an error.
C5_FaultIsolation ==
    /\ (UpdateReturned /\ \E i \in DOMAIN passLog : passLog[i].raised) =>
           /\ ~lastCall.raised
           /\ Invoked = systems
           /\ events = <<>>
    /\ pos = 0 => Len(passLog) \in {0, Len(systems)}

\* an update has returned in which the first of two systems raised after
\* appending an event, and the second ran and found that event
C5_Witness ==
    /\ UpdateReturned
    /\ Len(passLog) = 2
    /\ passLog[1].raised
    /\ passLog[1].emitted # <<>>
    /\ passLog[2].seen # <<>>

\* World.update has been entered and no system has run yet
UpdateEntered == pos = 1 /\ passLog = <<>>

\* C14 as stated: the queue is empty at every entry to World.update.
C14_QueueEmptyAtEntry ==
    UpdateEntered => Len(events) = 0

\* C14, amended: at every entry to World.update the queue holds only events
\* that outside callers appended since the previous update returned (none
\* that a system appended, none from before the previous update's end); it
\* is empty when no caller appended one.
C14_QueueAtEntryIsCallersOnly ==
    UpdateEntered =>
        \A i \in DOMAIN events :
            events[i].pos = 0 /\ events[i].tick = _next_update_id - 1

\* the second update is entered with a caller's event in the queue and a
\* system registered
C14_Witness ==
    /\ UpdateEntered
    /\ _next_update_id = 2
    /\ events # <<>>
    /\ systems # <<>>

\* ========================================================= MovementSystem
\* src/ecs_systems.py, class MovementSystem, run on the World above: the
\* component tables now hold the components the system reads.

MaxBodies == 3   \* entities placed in the corridor
MaxX      == 2   \* the corridor's cells are x = 0..MaxX, y = 0

Bodies == 1..MaxBodies
Cells  == 0..MaxX
\* the entity with a MovementComponent (the player or a monster); the other
\* bodies are scenery
Mover == CHOOSE b \in Bodies : \A other \in Bodies : b <= other

\* random.randint(1, 20)
D20 == 20

PositionComponent(x, y) == [type |-> "PositionComponent", x |-> x, y |-> y]
MovementComponent == [type |-> "MovementComponent"]
StatsComponent(strength) == [type |-> "StatsComponent", strength |-> strength]
PlayerControlledComponent == [type |-> "PlayerControlledComponent"]
MonsterComponent == [type |-> "MonsterComponent"]
ItemComponent == [type |-> "ItemComponent"]
BlocksMovementComponent(blocks_player, blocks_monsters, blocks_items) ==
    [type |-> "BlocksMovementComponent", blocks_player |-> blocks_player,
     blocks_monsters |-> blocks_monsters, blocks_items |-> blocks_items]
MovableComponent(push_difficulty) ==
    [type |-> "MovableComponent", push_difficulty |-> push_difficulty]

\* StatsComponent.get_modifier
get_modifier(stat_value) ==
    IF stat_value <= 3 THEN -4
    ELSE IF stat_value <= 5 THEN -3
    ELSE IF stat_value <= 7 THEN -2
    ELSE IF stat_value <= 9 THEN -1
    ELSE IF stat_value <= 11 THEN 0
    ELSE IF stat_value <= 13 THEN 1
    ELSE IF stat_value <= 15 THEN 2
    ELSE IF stat_value <= 17 THEN 3
    ELSE 4

\* the BlocksMovementComponent values the factories attach: the default
\* (door, boulder, column) and the chest's
BlockerValues == {BlocksMovementComponent(TRUE, TRUE, FALSE),
                  BlocksMovementComponent(FALSE, TRUE, TRUE)}
\* a goblin's strength (modifier -1) and a strong character's (modifier +3)
Strengths == {8, 16}
\* the boulder's MovableComponent
Boulder == MovableComponent(15)

\* what the entity a MoveEvent names is built from, besides its position: a
\* MovementComponent with or without a category and stats, or nothing at
\* all (an entity that cannot move)
MoverKits ==
    {{MovementComponent} \cup category \cup stats :
        category \in {{}, {PlayerControlledComponent}, {MonsterComponent}, {ItemComponent}},
        stats \in {{}} \cup {{StatsComponent(s)} : s \in Strengths}}
    \cup {{}}

\* what a piece of scenery is built from, besides its position: nothing the
\* system reads, or a BlocksMovementComponent, alone or with the boulder's
\* MovableComponent, alone or with an ItemComponent (the system reads a
\* MovableComponent only on a blocking entity, and a category only on the
\* mover and on the entity it pushes)
SceneryKits ==
    {{}} \cup
    {{b} \cup movable :
        b \in BlockerValues,
        movable \in {{}, {Boulder}, {Boulder, ItemComponent}}}

\* the component tables after create_entity and add_component for every
\* body: attached[e] is the set of components added to e
TablesOf(attached) ==
    LET types == {c.type : c \in UNION {attached[e] : e \in DOMAIN attached}}
    IN [t \in types |->
           [e \in {b \in DOMAIN attached : \E c \in attached[b] : c.type = t} |->
               CHOOSE c \in attached[e] : c.type = t]]

MoveEvent(entity, from_pos, to_pos) ==
    [type |-> "MoveEvent", entity |-> entity, from_pos |-> from_pos, to_pos |-> to_pos]
\* the event as it would be if it carried the new position twice
MovementCompletedEvent_NoFrom(entity, from_pos, to_pos) ==
    [type |-> "MovementCompletedEvent", entity |-> entity,
     from_pos |-> to_pos, to_pos |-> to_pos]

MovementCompletedEvent(entity, from_pos, to_pos) ==
    [type |-> "MovementCompletedEvent", entity |-> entity,
     from_pos |-> from_pos, to_pos |-> to_pos]
\* the push's event as it would be if a push were reported as a completed
\* movement of the pusher
EntityPushedEvent_AsCompleted(pusher, pushee, new_position) ==
    [type |-> "MovementCompletedEvent", entity |-> pusher,
     from_pos |-> new_position, to_pos |-> new_position]

EntityPushedEvent(pusher, pushee, new_position) ==
    [type |-> "EntityPushedEvent", pusher |-> pusher, pushee |-> pushee,
     new_position |-> new_position]

\* world.get_entities_with_components(PositionComponent, BlocksMovementComponent)
blocking_entities == QueryReturn(<<"PositionComponent", "BlocksMovementComponent">>)

\* the cache after that query
CacheAfterBlockingQuery ==
    LET cache_key == {"PositionComponent", "BlocksMovementComponent"}
    IN [k \in (DOMAIN _entity_cache) \cup {cache_key} |->
           IF k = cache_key THEN blocking_entities ELSE _entity_cache[k]]

IsAt(entity, x, y) ==
    /\ get_component(entity, "PositionComponent").x = x
    /\ get_component(entity, "PositionComponent").y = y

\* _is_position_blocked, the loop: blocking_entities is a set, scanned in an
\* order the program does not control, and the loop returns at the first
\* entity other than the mover that it meets at (x, y).  Met is the set of
\* entities that first one can be.
Met(x, y, moving_entity) ==
    {b \in blocking_entities : b # moving_entity /\ IsAt(b, x, y)}

FirstMet(x, y, moving_entity) ==
    IF Met(x, y, moving_entity) = {} THEN {NoEntity} ELSE Met(x, y, moving_entity)

\* _is_position_blocked, given the entity the scan meets first at (x, y)
\* (NoEntity: there is none and the loop runs out)
_is_position_blocked(x, y, moving_entity, first) ==
    IF first = NoEntity
    THEN FALSE
    ELSE LET blocking_comp == get_component(first, "BlocksMovementComponent") IN
         IF has_component(moving_entity, "PlayerControlledComponent")
         THEN blocking_comp.blocks_player
         ELSE IF has_component(moving_entity, "MonsterComponent")
         THEN blocking_comp.blocks_monsters
         ELSE IF has_component(moving_entity, "ItemComponent")
         THEN blocking_comp.blocks_items
         ELSE TRUE

\* _try_special_movement, the loop: it skips the entities at (x, y) that
\* have no MovableComponent and returns at the first one that has;
\* FirstMovable is the set of entities that one can be
Pushables(x, y) ==
    {b \in blocking_entities :
        IsAt(b, x, y) /\ Truthy(get_component(b, "MovableComponent"))}

FirstMovable(x, y) ==
    IF Pushables(x, y) = {} THEN {NoEntity} ELSE Pushables(x, y)

\* the cell _try_push_entity pushes to
PushTarget(pusher, pushee, target_x, target_y) ==
    LET pusher_pos == get_component(pusher, "PositionComponent")
        pushee_pos == get_component(pushee, "PositionComponent")
        push_dx == target_x - pusher_pos.x
        push_dy == target_y - pusher_pos.y
    IN [x |-> pushee_pos.x + push_dx, y |-> pushee_pos.y + push_dy]

\* _try_push_entity up to the roll: TRUE when the roll is made
PushReachesRoll(pusher, pushee, target_x, target_y, first) ==
    /\ Truthy(get_component(pusher, "PositionComponent"))
    /\ Truthy(get_component(pushee, "PositionComponent"))
    /\ Truthy(get_component(pushee, "MovableComponent"))
    /\ Truthy(get_component(pusher, "StatsComponent"))
    /\ LET t == PushTarget(pusher, pushee, target_x, target_y)
       IN ~_is_position_blocked(t.x, t.y, pushee, first)

\* the strength check as it would be without the strength modifier
PushSucceeds_RollOnly(pusher, pushee, roll) ==
    roll >= get_component(pushee, "MovableComponent").push_difficulty

\* the strength check of _try_push_entity
PushSucceeds(pusher, pushee, roll) ==
    LET strength_mod == get_modifier(get_component(pusher, "StatsComponent").strength)
        push_roll == roll + strength_mod
    IN push_roll >= get_component(pushee, "MovableComponent").push_difficulty

\* positions after `comp.x = x; comp.y = y` on an entity's PositionComponent
Relocate(tables, entity, x, y) ==
    [tables EXCEPT !["PositionComponent"] =
        [@ EXCEPT ![entity] = [@ EXCEPT !.x = x, !.y = y]]]

\* the record of one process_movement call
MoveCall(move_event, blocked, pushee, roll, ok, emitted) ==
    [op |-> "process_movement", entity |-> move_event.entity, to_pos |-> move_event.to_pos,
     blocked |-> blocked, pushee |-> pushee, roll |-> roll, ok |-> ok,
     emitted |-> emitted]

\* process_movement as it would be without the has_component(entity,
\* MovementComponent) check
process_movement_NoMovementCheck(move_event, first, pushee, behind, roll) ==
    LET entity == move_event.entity
        new_x == move_event.to_pos.x
        new_y == move_event.to_pos.y
        pos_comp == get_component(entity, "PositionComponent")
    IN
    IF ~Truthy(pos_comp)
    THEN /\ lastCall' = MoveCall(move_event, FALSE, NoEntity, 0, FALSE, <<>>)
         /\ UNCHANGED <<components, events, _entity_cache>>
    ELSE IF _is_position_blocked(new_x, new_y, entity, first)
    THEN \* _try_special_movement
         IF pushee # NoEntity
            /\ PushReachesRoll(entity, pushee, new_x, new_y, behind)
            /\ PushSucceeds(entity, pushee, roll)
         THEN LET t == PushTarget(entity, pushee, new_x, new_y)
                  emitted == <<EntityPushedEvent(entity, pushee, t)>>
              IN /\ components' = Relocate(Relocate(components, pushee, t.x, t.y),
                                           entity, new_x, new_y)
                 /\ events' = events \o emitted
                 /\ _entity_cache' = CacheAfterBlockingQuery
                 /\ lastCall' = MoveCall(move_event, TRUE, pushee, roll, TRUE, emitted)
         ELSE /\ lastCall' = MoveCall(move_event, TRUE, pushee,
                                      IF pushee # NoEntity
                                         /\ PushReachesRoll(entity, pushee, new_x, new_y, behind)
                                      THEN roll ELSE 0,
                                      FALSE, <<>>)
              /\ _entity_cache' = CacheAfterBlockingQuery
              /\ UNCHANGED <<components, events>>
    ELSE LET old_pos == [x |-> pos_comp.x, y |-> pos_comp.y]
             emitted == <<MovementCompletedEvent(entity, old_pos, move_event.to_pos)>>
         IN /\ components' = Relocate(components, entity, new_x, new_y)
            /\ events' = events \o emitted
            /\ _entity_cache' = CacheAfterBlockingQuery
            /\ lastCall' = MoveCall(move_event, FALSE, NoEntity, 0, TRUE, emitted)

\* MovementSystem.process_movement.  first: the entity _is_position_blocked
\* meets first at the destination; pushee: the entity _try_special_movement
\* meets first with a MovableComponent; behind: the entity
\* _is_position_blocked meets first at the push target; roll: the d20.
process_movement(move_event, first, pushee, behind, roll) ==
    LET entity == move_event.entity
        new_x == move_event.to_pos.x
        new_y == move_event.to_pos.y
        pos_comp == get_component(entity, "PositionComponent")
    IN
    IF ~Truthy(pos_comp) \/ ~has_component(entity, "MovementComponent")
    THEN /\ lastCall' = MoveCall(move_event, FALSE, NoEntity, 0, FALSE, <<>>)
         /\ UNCHANGED <<components, events, _entity_cache>>
    ELSE IF _is_position_blocked(new_x, new_y, entity, first)
    THEN \* _try_special_movement
         IF pushee # NoEntity
            /\ PushReachesRoll(entity, pushee, new_x, new_y, behind)
            /\ PushSucceeds(entity, pushee, roll)
         THEN LET t == PushTarget(entity, pushee, new_x, new_y)
                  emitted == <<EntityPushedEvent(entity, pushee, t)>>
              IN /\ components' = Relocate(Relocate(components, pushee, t.x, t.y),
                                           entity, new_x, new_y)
                 /\ events' = events \o emitted
                 /\ _entity_cache' = CacheAfterBlockingQuery
                 /\ lastCall' = MoveCall(move_event, TRUE, pushee, roll, TRUE, emitted)
         ELSE /\ lastCall' = MoveCall(move_event, TRUE, pushee,
                                      IF pushee # NoEntity
                                         /\ PushReachesRoll(entity, pushee, new_x, new_y, behind)
                                      THEN roll ELSE 0,
                                      FALSE, <<>>)
              /\ _entity_cache' = CacheAfterBlockingQuery
              /\ UNCHANGED <<components, events>>
    ELSE LET old_pos == [x |-> pos_comp.x, y |-> pos_comp.y]
             emitted == <<MovementCompletedEvent(entity, old_pos, move_event.to_pos)>>
         IN /\ components' = Relocate(components, entity, new_x, new_y)
            /\ events' = events \o emitted
            /\ _entity_cache' = CacheAfterBlockingQuery
            /\ lastCall' = MoveCall(move_event, FALSE, NoEntity, 0, TRUE, emitted)

\* the choices process_movement's scans and its roll leave open for an event
\* (no choice where the call does not get that far)
RollsFor(move_event, pushee, behind) ==
    IF pushee # NoEntity
       /\ Truthy(get_component(move_event.entity, "PositionComponent"))
       /\ PushReachesRoll(move_event.entity, pushee,
                          move_event.to_pos.x, move_event.to_pos.y, behind)
    THEN 1..D20
    ELSE {0}

BehindFor(move_event, pushee) ==
    IF pushee # NoEntity /\ Truthy(get_component(move_event.entity, "PositionComponent"))
    THEN LET t == PushTarget(move_event.entity, pushee,
                             move_event.to_pos.x, move_event.to_pos.y)
         IN FirstMet(t.x, t.y, pushee)
    ELSE {NoEntity}

\* World.update's loop iteration for the MovementSystem, whose update is
\*     for event in world.events:
\*         if isinstance(event, MoveEvent): self.process_movement(world, event)
\* with one MoveEvent in the queue
MovementSystemUpdate ==
    /\ pos # 0
    /\ pos <= Len(systems)
    /\ Len(events) = 1
    /\ events[1].type = "MoveEvent"
    /\ LET move_event == events[1] IN
       \E first \in FirstMet(move_event.to_pos.x, move_event.to_pos.y, move_event.entity),
          pushee \in FirstMovable(move_event.to_pos.x, move_event.to_pos.y) :
          \E behind \in BehindFor(move_event, pushee) :
             \E roll \in RollsFor(move_event, pushee, behind) :
                process_movement(move_event, first, pushee, behind, roll)
    /\ pos' = pos + 1
    /\ UNCHANGED <<entities, systems, issued, destroyed, _next_update_id, passLog>>

\* The corridor as the dungeon loader left it: the mover at its west end,
\* the scenery numbered from west to east; the input handler's MoveEvent for
\* the mover is in the queue and World.update is about to run the
\* MovementSystem.  The mover is placed like the others, or it was given
\* its MovementComponent and no PositionComponent, or it was destroyed
\* after the event was queued (destroy_entity took its components).
InitMove ==
    \E place \in [Bodies -> Cells], kit \in MoverKits,
       scenery \in [Bodies \ {Mover} -> SceneryKits], to_x \in Cells,
       standing \in {"placed", "unplaced", "destroyed"} :
        /\ place[Mover] = 0
        /\ \A a \in Bodies \ {Mover}, b \in Bodies \ {Mover} :
               a <= b => place[a] <= place[b]
        /\ standing # "placed" => kit = {MovementComponent}
        /\ entities = IF standing = "destroyed" THEN Bodies \ {Mover} ELSE Bodies
        /\ issued = Bodies
        /\ destroyed = IF standing = "destroyed" THEN {Mover} ELSE {}
        /\ components = TablesOf([b \in Bodies |->
                            IF b # Mover
                            THEN {PositionComponent(place[b], 0)} \cup scenery[b]
                            ELSE IF standing = "placed"
                            THEN {PositionComponent(place[b], 0)} \cup kit
                            ELSE IF standing = "unplaced" THEN kit
                            ELSE {}])
        /\ systems = <<1>>
        /\ events = <<MoveEvent(Mover, [x |-> place[Mover], y |-> 0],
                                    [x |-> to_x, y |-> 0])>>
        /\ _entity_cache = EmptyDict
        /\ _next_update_id = 1
        /\ lastCall = Call("add_event", NoEntity, None, {}, {}, TRUE, FALSE, None, <<>>)
        /\ pos = 1
        /\ passLog = <<>>

NextMove == MovementSystemUpdate

SpecMove == InitMove /\ [][NextMove]_vars

\* ------------------------------------------- claims on the MovementSystem

\* the step is a process_movement call for the MoveEvent in the queue
MoveProcessed == lastCall'.op = "process_movement" /\ lastCall # lastCall'

\* the flag of a blocker that applies to a moving entity: the flag of the
\* entity's category, and every blocker applies to an entity of no category
Gates(blocker, moving_entity) ==
    LET blocking_comp == get_component(blocker, "BlocksMovementComponent") IN
    IF has_component(moving_entity, "PlayerControlledComponent")
    THEN blocking_comp.blocks_player
    ELSE IF has_component(moving_entity, "MonsterComponent")
    THEN blocking_comp.blocks_monsters
    ELSE IF has_component(moving_entity, "ItemComponent")
    THEN blocking_comp.blocks_items
    ELSE TRUE

\* the entities other than moving_entity that stand at (x, y) with a
\* BlocksMovementComponent, read off the tables one entity at a time
BlockersAt(x, y, moving_entity) ==
    {b \in Bodies \ {moving_entity} :
        /\ has_component(b, "PositionComponent")
        /\ has_component(b, "BlocksMovementComponent")
        /\ IsAt(b, x, y)}

Categorized(entity) ==
    \/ has_component(entity, "PlayerControlledComponent")
    \/ has_component(entity, "MonsterComponent")
    \/ has_component(entity, "ItemComponent")

\* C15 as stated: when the destination is blocked for the mover and a
\* blocker that applies to the mover and has no MovableComponent stands
\* there, no PositionComponent changes and no MovementCompletedEvent is
\* appended.
C15_NonMovableBlockerStopsMove ==
    [][(/\ MoveProcessed
        /\ lastCall'.blocked
        /\ \E b \in BlockersAt(events[1].to_pos.x, events[1].to_pos.y, events[1].entity) :
              /\ Gates(b, events[1].entity)
              /\ ~has_component(b, "MovableComponent")) =>
           /\ components' = components
           /\ \A i \in DOMAIN lastCall'.emitted :
                 lastCall'.emitted[i].type # "MovementCompletedEvent"]_vars

\* C16: a mover with a StatsComponent moves to an adjacent cell where one
\* other entity stands, a movable blocker that applies to the mover, and no
\* entity stands at the cell behind it: every roll 1..20 can come up, the
\* move succeeds iff roll + strength modifier >= push_difficulty, on
\* success the blocker stands one cell further in the mover's direction and
\* the mover at the destination, nothing else has moved, and on failure no
\* position has changed.
C16_PushSucceedsIffRollMeetsDifficulty ==
    [][\A p \in Bodies :
          LET m == events[1].entity
              to == events[1].to_pos
              from == get_component(m, "PositionComponent")
              t == PushTarget(m, p, to.x, to.y)
          IN (/\ MoveProcessed
              /\ has_component(m, "StatsComponent")
              /\ to.x - from.x \in {-1, 0, 1}
              /\ to.y - from.y \in {-1, 0, 1}
              /\ ~IsAt(m, to.x, to.y)
              /\ {b \in Bodies \ {m} : IsAt(b, to.x, to.y)} = {p}
              /\ has_component(p, "BlocksMovementComponent")
              /\ Gates(p, m)
              /\ has_component(p, "MovableComponent")
              /\ {b \in Bodies : IsAt(b, t.x, t.y)} = {}) =>
                 /\ RollsFor(events[1], p, NoEntity) = 1..D20
                 /\ lastCall'.roll \in 1..D20
                 /\ lastCall'.ok <=>
                       lastCall'.roll
                         + get_modifier(get_component(m, "StatsComponent").strength)
                       >= get_component(p, "MovableComponent").push_difficulty
                 /\ lastCall'.ok =>
                       components' = Relocate(Relocate(components, p,
                                                       2 * to.x - from.x, 2 * to.y - from.y),
                                              m, to.x, to.y)
                 /\ ~lastCall'.ok => components' = components]_vars

\* a push that succeeded with the lowest total that meets the difficulty,
\* by a mover whose strength modifier is not 0
C16_Witness ==
    /\ lastCall.op = "process_movement"
    /\ lastCall.ok
    /\ lastCall.pushee # NoEntity
    /\ lastCall.to_pos.x = 1
    /\ get_modifier(get_component(lastCall.entity, "StatsComponent").strength) # 0
    /\ lastCall.roll + get_modifier(get_component(lastCall.entity, "StatsComponent").strength)
          = get_component(lastCall.pushee, "MovableComponent").push_difficulty
    /\ IsAt(lastCall.entity, 1, 0)
    /\ IsAt(lastCall.pushee, 2, 0)

\* C19 as stated: for a mover that is a player, a monster or an item the
\* destination is computed as blocked iff some other entity with a position
\* and a BlocksMovementComponent at the destination has the flag of the
\* mover's category set, however many blockers share the cell and in
\* whatever order the scan meets them.
C19_BlockedIffSomeBlockerGates ==
    [][(MoveProcessed /\ Categorized(events[1].entity)) =>
          (lastCall'.blocked <=>
              \E b \in BlockersAt(events[1].to_pos.x, events[1].to_pos.y, events[1].entity) :
                  Gates(b, events[1].entity))]_vars

\* C20 as stated: when the cell a movable blocker would be pushed to is
\* blocked for it or holds another movable blocker, the move fails, no
\* position changes and no event is appended; and no MoveEvent relocates more
\* than one entity besides the mover.
C20_PushIsOneDeep ==
    [][MoveProcessed =>
          /\ \A p \in Bodies :
                LET m == events[1].entity
                    t == PushTarget(m, p, events[1].to_pos.x, events[1].to_pos.y)
                IN (/\ lastCall'.blocked
                    /\ lastCall'.pushee = p
                    /\ \/ \E b \in BlockersAt(t.x, t.y, p) : Gates(b, p)
                       \/ \E b \in BlockersAt(t.x, t.y, p) :
                             b # m /\ has_component(b, "MovableComponent")) =>
                       /\ ~lastCall'.ok
                       /\ components' = components
                       /\ lastCall'.emitted = <<>>
          /\ Cardinality({b \in Bodies \ {events[1].entity} :
                 get_component(b, "PositionComponent")'
                     # get_component(b, "PositionComponent")}) <= 1]_vars

\* C31: a process_movement call for an entity that has a PositionComponent
\* and a MovementComponent, to a cell where no blocker stands that applies
\* to it, puts the entity on the event's to cell, appends one
\* MovementCompletedEvent with the entity, the position it had and the new
\* one, and nothing else to the queue, and leaves every other entity's
\* position as it was.
C31_UnblockedMoveCommits ==
    [][LET m == events[1].entity
           to == events[1].to_pos
           from == get_component(m, "PositionComponent")
       IN (/\ MoveProcessed
           /\ has_component(m, "PositionComponent")
           /\ has_component(m, "MovementComponent")
           /\ \A b \in BlockersAt(to.x, to.y, m) : ~Gates(b, m)) =>
              /\ lastCall'.ok
              /\ get_component(m, "PositionComponent")' = PositionComponent(to.x, to.y)
              /\ events' = Append(events, [type |-> "MovementCompletedEvent", entity |-> m,
                                           from_pos |-> [x |-> from.x, y |-> from.y],
                                           to_pos |-> to])
              /\ \A b \in Bodies \ {m} :
                    get_component(b, "PositionComponent")'
                        = get_component(b, "PositionComponent")]_vars

\* a player has walked from cell 0 to cell 2, where a chest stands that
\* does not block players, and the queue holds its MovementCompletedEvent
C31_Witness ==
    /\ lastCall.op = "process_movement"
    /\ lastCall.ok
    /\ ~lastCall.blocked
    /\ has_component(lastCall.entity, "PlayerControlledComponent")
    /\ IsAt(lastCall.entity, 2, 0)
    /\ \E b \in BlockersAt(2, 0, lastCall.entity) :
          ~get_component(b, "BlocksMovementComponent").blocks_player
    /\ Len(events) = 2
    /\ events[2].type = "MovementCompletedEvent"
    /\ events[2].from_pos.x = 0

\* C32: a process_movement call for an entity without a PositionComponent
\* or without a MovementComponent (an entity that was destroyed has
\* neither) returns False, changes no component and appends no event.
C32_UnableMoverIsRejected ==
    [][(/\ MoveProcessed
        /\ \/ ~has_component(events[1].entity, "PositionComponent")
           \/ ~has_component(events[1].entity, "MovementComponent")) =>
           /\ ~lastCall'.ok
           /\ components' = components
           /\ events' = events
           /\ lastCall'.emitted = <<>>]_vars

\* a MoveEvent for an entity that had been destroyed was processed and
\* rejected
C32_Witness ==
    /\ lastCall.op = "process_movement"
    /\ ~lastCall.ok
    /\ lastCall.entity \in destroyed
    /\ lastCall.entity \notin entities
    /\ Len(events) = 1

\* the entities other than the mover whose position a step changes
Shoved(m) ==
    {b \in Bodies \ {m} :
        get_component(b, "PositionComponent")' # get_component(b, "PositionComponent")}

\* C35: a process_movement call appends at most one event to the queue and
\* changes nothing else in it: nothing when it fails, and one event when
\* it succeeds, which is either a MovementCompletedEvent for the mover, no
\* other entity having moved (so it is whenever no blocker at the
\* destination applies to the mover), or an EntityPushedEvent naming the
\* mover, a movable blocker that stood at the destination and the cell
\* that blocker is on now; a step that moves another entity appends the
\* EntityPushedEvent.
C35_AtMostOneEventPerMove ==
    [][MoveProcessed =>
          LET m == events[1].entity
              to == events[1].to_pos
              appended == SubSeq(events', Len(events) + 1, Len(events'))
          IN /\ SubSeq(events', 1, Len(events)) = events
             /\ Len(appended) <= 1
             /\ ~lastCall'.ok => appended = <<>>
             /\ lastCall'.ok =>
                   /\ Len(appended) = 1
                   /\ \/ /\ appended[1].type = "MovementCompletedEvent"
                         /\ appended[1].entity = m
                         /\ appended[1].to_pos = to
                         /\ Shoved(m) = {}
                      \/ \E p \in BlockersAt(to.x, to.y, m) :
                            LET at == get_component(p, "PositionComponent")'
                            IN /\ has_component(p, "MovableComponent")
                               /\ Shoved(m) \subseteq {p}
                               /\ appended[1] = [type |-> "EntityPushedEvent", pusher |-> m,
                                                 pushee |-> p,
                                                 new_position |-> [x |-> at.x, y |-> at.y]]
             /\ (/\ has_component(m, "PositionComponent")
                 /\ has_component(m, "MovementComponent")
                 /\ \A b \in BlockersAt(to.x, to.y, m) : ~Gates(b, m)) =>
                   /\ Len(appended) = 1
                   /\ appended[1].type = "MovementCompletedEvent"]_vars

\* a monster has pushed a boulder from cell 1 to cell 2 and stands on cell
\* 1; the queue holds the MoveEvent and one EntityPushedEvent
C35_Witness ==
    /\ lastCall.op = "process_movement"
    /\ lastCall.ok
    /\ lastCall.blocked
    /\ has_component(lastCall.entity, "MonsterComponent")
    /\ IsAt(lastCall.entity, 1, 0)
    /\ Len(events) = 2
    /\ events[2].type = "EntityPushedEvent"
    /\ events[2].pushee = lastCall.pushee
    /\ events[2].new_position.x = 2

\* ======================================================== InteractionSystem
\* The World with the InteractionSystem registered (src/ecs_systems.py).  The
\* component tables hold the records below; the event queue holds the
\* InteractionEvents the input handler queues and the outcome events the
\* system appends.

InteractableComponent(interaction_type, requires_adjacent, interaction_count, max_interactions) ==
    [type |-> "InteractableComponent", interaction_type |-> interaction_type,
     requires_adjacent |-> requires_adjacent, interaction_count |-> interaction_count,
     max_interactions |-> max_interactions]
DoorComponent(is_open, locked) ==
    [type |-> "DoorComponent", is_open |-> is_open, locked |-> locked]
ContainerComponent(is_open, requires_key) ==
    [type |-> "ContainerComponent", is_open |-> is_open, requires_key |-> requires_key]
LightSourceComponent(lit, light_color) ==
    [type |-> "LightSourceComponent", lit |-> lit, light_color |-> light_color]
RenderableComponent(ascii_char, color) ==
    [type |-> "RenderableComponent", ascii_char |-> ascii_char, color |-> color]

InteractionEvent(actor, target, interaction_type) ==
    [type |-> "InteractionEvent", actor |-> actor, target |-> target,
     interaction_type |-> interaction_type]
InteractionSuccessEvent(actor, target, interaction_type) ==
    [type |-> "InteractionSuccessEvent", actor |-> actor, target |-> target,
     interaction_type |-> interaction_type]
InteractionFailedEvent(actor, target, reason) ==
    [type |-> "InteractionFailedEvent", actor |-> actor, target |-> target,
     reason |-> reason]

abs(n) == IF n < 0 THEN 0 - n ELSE n

\* min(a, b) in place of max(a, b)
distance_to_Min(self, other) ==
    LET dx == abs(self.x - other.x)
        dy == abs(self.y - other.y)
    IN IF dx <= dy THEN dx ELSE dy

\* PositionComponent.distance_to: max(abs(dx), abs(dy))
distance_to(self, other) ==
    LET dx == abs(self.x - other.x)
        dy == abs(self.y - other.y)
    IN IF dx >= dy THEN dx ELSE dy

\* InteractionSystem._are_adjacent
_are_adjacent(entity1, entity2) ==
    LET pos1 == get_component(entity1, "PositionComponent")
        pos2 == get_component(entity2, "PositionComponent")
    IN IF ~Truthy(pos1) \/ ~Truthy(pos2)
       THEN FALSE
       ELSE distance_to(pos1, pos2) <= 1

\* world.get_entities_with_components(PositionComponent, InteractableComponent)
interactable_entities == QueryReturn(<<"PositionComponent", "InteractableComponent">>)

\* the cache after that query
CacheAfterInteractableQuery ==
    LET cache_key == {"PositionComponent", "InteractableComponent"}
    IN [k \in (DOMAIN _entity_cache) \cup {cache_key} |->
           IF k = cache_key THEN interactable_entities ELSE _entity_cache[k]]

\* _find_nearby_interactable, the loop: interactable_entities is a set,
\* scanned in an order the program does not control, and the loop returns the
\* first entity it meets within distance 1 of the actor.  Nearby is the set
\* of entities that one can be.
Nearby(actor) ==
    LET actor_pos == get_component(actor, "PositionComponent")
    IN IF ~Truthy(actor_pos)
       THEN {}
       ELSE {entity \in interactable_entities :
                /\ Truthy(get_component(entity, "PositionComponent"))
                /\ distance_to(actor_pos, get_component(entity, "PositionComponent")) <= 1}

\* what _find_nearby_interactable can return (NoEntity: None)
_find_nearby_interactable(actor) ==
    IF Nearby(actor) = {} THEN {NoEntity} ELSE Nearby(actor)

\* the cache after _find_nearby_interactable, which queries only when the
\* actor has a position
CacheAfterFind(actor) ==
    IF Truthy(get_component(actor, "PositionComponent"))
    THEN CacheAfterInteractableQuery
    ELSE _entity_cache

\* what a type-specific handler did: the tables it left, the events it
\* appended, what it returned, whether it raised
Handled(tables, emitted, success, raised) ==
    [tables |-> tables, emitted |-> emitted, success |-> success, raised |-> raised]

\* the glyph of a door with the two signs swapped
DoorGlyph_Swapped(is_open) == IF is_open THEN "+" ELSE "-"

\* the glyph of a door: '-' open, '+' closed
DoorGlyph(is_open) == IF is_open THEN "-" ELSE "+"
\* the colour of an unlit light source: (100, 100, 100)
DimGray == <<100, 100, 100>>

\* InteractionSystem._interact_with_door
_interact_with_door(actor, door) ==
    LET door_comp == get_component(door, "DoorComponent") IN
    IF ~Truthy(door_comp)
    THEN Handled(components, <<>>, FALSE, FALSE)
    ELSE IF door_comp.locked
    THEN Handled(components, <<InteractionFailedEvent(actor, door, "Door is locked")>>,
                 FALSE, FALSE)
    ELSE LET now_open == ~door_comp.is_open
             toggled == [components EXCEPT !["DoorComponent"] =
                            [@ EXCEPT ![door] = [@ EXCEPT !.is_open = now_open]]]
         IN IF Truthy(get_component(door, "RenderableComponent"))
            THEN Handled([toggled EXCEPT !["RenderableComponent"] =
                             [@ EXCEPT ![door] =
                                 [@ EXCEPT !.ascii_char = DoorGlyph(now_open)]]],
                         <<>>, TRUE, FALSE)
            ELSE Handled(toggled, <<>>, TRUE, FALSE)

\* InteractionSystem._interact_with_container
_interact_with_container(actor, container) ==
    LET container_comp == get_component(container, "ContainerComponent") IN
    IF ~Truthy(container_comp)
    THEN Handled(components, <<>>, FALSE, FALSE)
    ELSE IF container_comp.requires_key
    THEN Handled(components,
                 <<InteractionFailedEvent(actor, container, "Container is locked")>>,
                 FALSE, FALSE)
    ELSE Handled([components EXCEPT !["ContainerComponent"] =
                     [@ EXCEPT ![container] =
                         [@ EXCEPT !.is_open = ~container_comp.is_open]]],
                 <<>>, TRUE, FALSE)

\* InteractionSystem._interact_with_light
_interact_with_light(actor, light_source) ==
    LET light == get_component(light_source, "LightSourceComponent") IN
    IF ~Truthy(light)
    THEN Handled(components, <<>>, FALSE, FALSE)
    ELSE LET now_lit == ~light.lit
             toggled == [components EXCEPT !["LightSourceComponent"] =
                            [@ EXCEPT ![light_source] = [@ EXCEPT !.lit = now_lit]]]
         IN IF Truthy(get_component(light_source, "RenderableComponent"))
            THEN Handled([toggled EXCEPT !["RenderableComponent"] =
                             [@ EXCEPT ![light_source] =
                                 [@ EXCEPT !.color = IF now_lit THEN light.light_color
                                                     ELSE DimGray]]],
                         <<>>, TRUE, FALSE)
            ELSE Handled(toggled, <<>>, TRUE, FALSE)

\* InteractionSystem._interact_with_altar:
\*     world.add_component(actor, BlessedComponent(duration_remaining=10, bonus_amount=1))
\* BlessedComponent is a dataclass whose first field, effect_type, has no
\* default, so the constructor call raises TypeError before add_component
\* is entered
_interact_with_altar(actor, altar) ==
    Handled(components, <<>>, FALSE, TRUE)

\* InteractionSystem._process_specific_interaction
_process_specific_interaction(actor, target, interactable) ==
    LET interaction_type == interactable.interaction_type IN
    IF interaction_type = "door" THEN _interact_with_door(actor, target)
    ELSE IF interaction_type = "container" THEN _interact_with_container(actor, target)
    ELSE IF interaction_type = "light_source" THEN _interact_with_light(actor, target)
    ELSE IF interaction_type = "altar" THEN _interact_with_altar(actor, target)
    ELSE Handled(components, <<>>, TRUE, FALSE)

\* the record of one process_interaction call: the event, the target it
\* settled on, what it returned, whether it raised, what it appended
InteractCall(interaction_event, target, ok, raised, emitted) ==
    [op |-> "process_interaction", actor |-> interaction_event.actor,
     given |-> interaction_event.target, target |-> target, ok |-> ok,
     raised |-> raised, emitted |-> emitted]

\* process_interaction as it would be without the check of the interaction
\* limit
process_interaction_NoLimit(interaction_event, found) ==
    LET actor == interaction_event.actor
        target == IF interaction_event.target = NoEntity
                  THEN found ELSE interaction_event.target
        cache == IF interaction_event.target = NoEntity
                 THEN CacheAfterFind(actor) ELSE _entity_cache
        interactable == get_component(target, "InteractableComponent")
        Fail(reason) ==
            LET emitted == <<InteractionFailedEvent(actor, target, reason)>>
            IN /\ events' = events \o emitted
               /\ components' = components
               /\ lastCall' = InteractCall(interaction_event, target, FALSE, FALSE, emitted)
    IN
    /\ _entity_cache' = cache
    /\ IF target = NoEntity
       THEN Fail("Nothing to interact with")
       ELSE IF ~Truthy(interactable)
       THEN Fail("Not interactable")
       ELSE IF interactable.requires_adjacent /\ ~_are_adjacent(actor, target)
       THEN Fail("Too far away")
       ELSE LET done == _process_specific_interaction(actor, target, interactable)
                emitted ==
                    IF done.success
                    THEN done.emitted \o
                         <<InteractionSuccessEvent(actor, target,
                                                   interactable.interaction_type)>>
                    ELSE done.emitted
            IN /\ components' =
                      IF done.success
                      THEN [done.tables EXCEPT !["InteractableComponent"] =
                               [@ EXCEPT ![target] =
                                   [@ EXCEPT !.interaction_count = @ + 1]]]
                      ELSE done.tables
               /\ events' = events \o emitted
               /\ lastCall' = InteractCall(interaction_event, target, done.success,
                                           done.raised, emitted)

\* InteractionSystem.process_interaction.  found: what
\* _find_nearby_interactable returns when the event names no target.
process_interaction(interaction_event, found) ==
    LET actor == interaction_event.actor
        target == IF interaction_event.target = NoEntity
                  THEN found ELSE interaction_event.target
        cache == IF interaction_event.target = NoEntity
                 THEN CacheAfterFind(actor) ELSE _entity_cache
        interactable == get_component(target, "InteractableComponent")
        Fail(reason) ==
            LET emitted == <<InteractionFailedEvent(actor, target, reason)>>
            IN /\ events' = events \o emitted
               /\ components' = components
               /\ lastCall' = InteractCall(interaction_event, target, FALSE, FALSE, emitted)
    IN
    /\ _entity_cache' = cache
    /\ IF target = NoEntity
       THEN Fail("Nothing to interact with")
       ELSE IF ~Truthy(interactable)
       THEN Fail("Not interactable")
       ELSE IF interactable.requires_adjacent /\ ~_are_adjacent(actor, target)
       THEN Fail("Too far away")
       ELSE IF interactable.max_interactions >= 0
               /\ interactable.interaction_count >= interactable.max_interactions
       THEN Fail("No more uses")
       ELSE LET done == _process_specific_interaction(actor, target, interactable)
                emitted ==
                    IF done.success
                    THEN done.emitted \o
                         <<InteractionSuccessEvent(actor, target,
                                                   interactable.interaction_type)>>
                    ELSE done.emitted
            IN /\ components' =
                      IF done.success
                      THEN [done.tables EXCEPT !["InteractableComponent"] =
                               [@ EXCEPT ![target] =
                                   [@ EXCEPT !.interaction_count = @ + 1]]]
                      ELSE done.tables
               /\ events' = events \o emitted
               /\ lastCall' = InteractCall(interaction_event, target, done.success,
                                           done.raised, emitted)

\* World.update's loop iteration for the InteractionSystem, whose update is
\*     for event in world.events:
\*         if isinstance(event, InteractionEvent): self.process_interaction(world, event)
\* with at most one InteractionEvent in the queue, at its head; an exception
\* that leaves process_interaction leaves update and is caught by
\* World.update
InteractionSystemUpdate ==
    /\ pos # 0
    /\ pos <= Len(systems)
    /\ Len(events) <= 1
    /\ IF events # <<>> /\ events[1].type = "InteractionEvent"
       THEN /\ \E found \in _find_nearby_interactable(events[1].actor) :
                   process_interaction(events[1], found)
            /\ passLog' = Append(passLog, LogEntry(lastCall'.raised))
       ELSE /\ UNCHANGED <<components, events, _entity_cache, lastCall>>
            /\ passLog' = Append(passLog, LogEntry(FALSE))
    /\ pos' = pos + 1
    /\ UNCHANGED <<entities, systems, issued, destroyed, _next_update_id>>

\* the entity that interacts (the player), the fixture it faces, and the
\* levers that stand around
Actor == Mover
Fixture == CHOOSE b \in Bodies \ {Actor} : \A other \in Bodies \ {Actor} : b <= other
Levers == Bodies \ {Actor, Fixture}

\* the InteractableComponent values of a fixture of one kind: the
\* factories' (adjacent, unlimited), one that works from afar, and one with
\* a single use, fresh or spent
InteractableValues(interaction_type) ==
    {InteractableComponent(interaction_type, TRUE, 0, -1),
     InteractableComponent(interaction_type, FALSE, 0, -1),
     InteractableComponent(interaction_type, TRUE, 0, 1),
     InteractableComponent(interaction_type, TRUE, 1, 1)}

\* the door's brown, the torch's warm white
DoorColor == <<139, 69, 19>>
WarmWhite == <<255, 255, 200>>

\* what a fixture is built from, besides its position and its
\* InteractableComponent: per interaction type, the components its handler
\* reads (create_door draws a closed door as '|' or '-'; a door that was
\* opened by an interaction shows '-')
FixtureParts ==
    [door |-> {{},
               {DoorComponent(FALSE, FALSE)},
               {DoorComponent(FALSE, FALSE), RenderableComponent("|", DoorColor)},
               {DoorComponent(TRUE, FALSE), RenderableComponent("-", DoorColor)},
               {DoorComponent(FALSE, TRUE), RenderableComponent("|", DoorColor)}},
     container |-> {{},
                    {ContainerComponent(FALSE, FALSE)},
                    {ContainerComponent(FALSE, TRUE)}},
     light_source |-> {{LightSourceComponent(TRUE, WarmWhite),
                        RenderableComponent("!", WarmWhite)},
                       {LightSourceComponent(FALSE, WarmWhite),
                        RenderableComponent("!", DimGray)}},
     altar |-> {{}},
     lever |-> {{}}]

FixtureKits ==
    {{}} \cup
    UNION {{{i} \cup parts : i \in InteractableValues(kind), parts \in FixtureParts[kind]} :
              kind \in DOMAIN FixtureParts}

LeverKit == {InteractableComponent("lever", TRUE, 0, -1)}

\* The room as the dungeon loader left it: the actor in its corner, the
\* fixture anywhere in the room, the levers along the actor's row from west
\* to east; the InteractionSystem is registered and no update
\* has run.
InitInteract ==
    \E kit \in FixtureKits, fx \in Cells, fy \in Cells, place \in [Levers -> Cells] :
        /\ \A a \in Levers, b \in Levers : a <= b => place[a] <= place[b]
        /\ entities = Bodies
        /\ issued = Bodies
        /\ destroyed = {}
        /\ components = TablesOf([b \in Bodies |->
                            IF b = Actor THEN {PositionComponent(0, 0)}
                            ELSE IF b = Fixture THEN {PositionComponent(fx, fy)} \cup kit
                            ELSE {PositionComponent(place[b], 0)} \cup LeverKit])
        /\ systems = <<1>>
        /\ events = <<>>
        /\ _entity_cache = EmptyDict
        /\ _next_update_id = 0
        /\ lastCall = Call("add_system", NoEntity, None, {}, {}, TRUE, FALSE, None, <<>>)
        /\ pos = 0
        /\ passLog = <<>>

\* the input handler queues the actor's InteractionEvent (target None), or a
\* collaborator queues one that names its target; one per update
QueueInteraction(target) ==
    /\ events = <<>>
    /\ _next_update_id < MaxTicks
    /\ CallerContext(add_event(InteractionEvent(Actor, target, "interact")))

NextInteract ==
    \/ \E target \in {NoEntity} \cup (Bodies \ {Actor}) : QueueInteraction(target)
    \/ UpdateBegin
    \/ InteractionSystemUpdate
    \/ UpdateEnd

SpecInteract == InitInteract /\ [][NextInteract]_vars

\* ----------------------------------------- claims on the InteractionSystem

\* the step is a process_interaction call for the InteractionEvent in the queue
InteractionProcessed == lastCall'.op = "process_interaction" /\ lastCall # lastCall'

\* C18: a process_interaction call for an event that names a target whose
\* InteractableComponent has requires_adjacent set and whose position is at
\* Chebyshev distance 2 or more from the actor's returns False, appends
\* exactly one event, InteractionFailedEvent(actor, target, "Too far away"),
\* and changes no component of any entity: the target's interaction_count is
\* what it was and no InteractionSuccessEvent is appended.
C18_TooFarFailsAndMutatesNothing ==
    [][\A target \in Bodies :
          (/\ InteractionProcessed
           /\ events[1].target = target
           /\ has_component(target, "InteractableComponent")
           /\ get_component(target, "InteractableComponent").requires_adjacent
           /\ has_component(target, "PositionComponent")
           /\ has_component(events[1].actor, "PositionComponent")
           /\ (IF abs(get_component(events[1].actor, "PositionComponent").x
                         - get_component(target, "PositionComponent").x) >= 2
               THEN TRUE
               ELSE abs(get_component(events[1].actor, "PositionComponent").y
                           - get_component(target, "PositionComponent").y) >= 2))
          => /\ ~lastCall'.ok
             /\ ~lastCall'.raised
             /\ lastCall'.emitted =
                    <<InteractionFailedEvent(events[1].actor, target, "Too far away")>>
             /\ events' = events \o lastCall'.emitted
             /\ components' = components]_vars

\* a far fixture that would have worked at arm's length was asked and refused
C18_Witness ==
    /\ lastCall.op = "process_interaction"
    /\ lastCall.given = Fixture
    /\ lastCall.emitted = <<InteractionFailedEvent(Actor, Fixture, "Too far away")>>
    /\ get_component(Fixture, "PositionComponent").x = 2
    /\ get_component(Fixture, "PositionComponent").y = 1
    /\ get_component(Fixture, "InteractableComponent").interaction_type = "door"
    /\ get_component(Fixture, "InteractableComponent").max_interactions = -1
    /\ has_component(Fixture, "DoorComponent")
    /\ ~get_component(Fixture, "DoorComponent").locked

\* the outcome events a process_interaction call appended
Outcomes(emitted) ==
    {i \in DOMAIN emitted :
        emitted[i].type \in {"InteractionSuccessEvent", "InteractionFailedEvent"}}

\* C21: every process_interaction call appends exactly one outcome event, an
\* InteractionSuccessEvent or an InteractionFailedEvent with a reason, for
\* every interaction type and every set of components on the target; the
\* target's interaction_count goes up by exactly 1 if the success event is
\* appended and no interaction_count changes otherwise.
C21_ExactlyOneOutcomeEvent ==
    [][InteractionProcessed =>
          LET emitted == lastCall'.emitted
              succeeded == \E i \in DOMAIN emitted :
                               emitted[i].type = "InteractionSuccessEvent"
          IN /\ Cardinality(Outcomes(emitted)) = 1
             /\ \A i \in Outcomes(emitted) :
                    emitted[i].type = "InteractionFailedEvent" => emitted[i].reason # ""
             /\ \A b \in Bodies :
                    has_component(b, "InteractableComponent") =>
                        get_component(b, "InteractableComponent")'.interaction_count =
                            get_component(b, "InteractableComponent").interaction_count
                                + (IF succeeded /\ lastCall'.target = b THEN 1 ELSE 0)]_vars

\* the usage limit of an InteractableComponent is finite and used up
Exhausted(interactable) ==
    /\ interactable.max_interactions >= 0
    /\ interactable.interaction_count >= interactable.max_interactions

\* no InteractableComponent with a finite limit counts more uses than its limit
WithinLimit ==
    \A b \in Bodies :
        (has_component(b, "InteractableComponent")
         /\ get_component(b, "InteractableComponent").max_interactions >= 0) =>
            get_component(b, "InteractableComponent").interaction_count
                <= get_component(b, "InteractableComponent").max_interactions

\* C22 as stated: a process_interaction call on a target whose
\* InteractableComponent has max_interactions >= 0 and interaction_count >=
\* max_interactions appends InteractionFailedEvent(actor, target, "No more
\* uses") and nothing else and changes no component; and no
\* interaction_count ever exceeds a finite max_interactions.
C22_ExhaustedFailsNoMoreUses ==
    /\ []WithinLimit
    /\ [][\A b \in Bodies :
             (/\ InteractionProcessed
              /\ lastCall'.target = b
              /\ has_component(b, "InteractableComponent")
              /\ Exhausted(get_component(b, "InteractableComponent")))
             => /\ ~lastCall'.ok
                /\ lastCall'.emitted =
                       <<InteractionFailedEvent(events[1].actor, b, "No more uses")>>
                /\ components' = components]_vars

\* C22, amended: such a call fails and changes no component, and the one
\* event it appends gives the reason "No more uses" when the target is in
\* reach (requires_adjacent unset, or the actor adjacent) and "Too far away"
\* when it is not, the adjacency check coming first; and no
\* interaction_count ever exceeds a finite max_interactions.
C22_ExhaustedFailsAfterAdjacency ==
    /\ []WithinLimit
    /\ [][\A b \in Bodies :
             (/\ InteractionProcessed
              /\ lastCall'.target = b
              /\ has_component(b, "InteractableComponent")
              /\ Exhausted(get_component(b, "InteractableComponent")))
             => LET in_reach ==
                        \/ ~get_component(b, "InteractableComponent").requires_adjacent
                        \/ /\ has_component(b, "PositionComponent")
                           /\ has_component(events[1].actor, "PositionComponent")
                           /\ abs(get_component(events[1].actor, "PositionComponent").x
                                    - get_component(b, "PositionComponent").x) <= 1
                           /\ abs(get_component(events[1].actor, "PositionComponent").y
                                    - get_component(b, "PositionComponent").y) <= 1
                IN /\ ~lastCall'.ok
                   /\ lastCall'.emitted =
                          <<InteractionFailedEvent(events[1].actor, b,
                                IF in_reach THEN "No more uses" ELSE "Too far away")>>
                   /\ components' = components]_vars

\* a chest with a single use was opened in one update and refused in the next
C22_Witness ==
    /\ lastCall.op = "process_interaction"
    /\ lastCall.target = Fixture
    /\ lastCall.emitted = <<InteractionFailedEvent(Actor, Fixture, "No more uses")>>
    /\ _next_update_id = 2
    /\ get_component(Fixture, "InteractableComponent").interaction_count = 1
    /\ get_component(Fixture, "InteractableComponent").max_interactions = 1
    /\ has_component(Fixture, "ContainerComponent")
    /\ get_component(Fixture, "ContainerComponent").is_open

\* the Chebyshev distance between the positions of two entities
Apart(a, b) ==
    LET dx == abs(get_component(a, "PositionComponent").x
                    - get_component(b, "PositionComponent").x)
        dy == abs(get_component(a, "PositionComponent").y
                    - get_component(b, "PositionComponent").y)
    IN IF dx >= dy THEN dx ELSE dy

\* the entities an actor can reach: an InteractableComponent and a position
\* within Chebyshev distance 1 of the actor's
Reachable(actor) ==
    {b \in Bodies :
        /\ has_component(b, "InteractableComponent")
        /\ has_component(b, "PositionComponent")
        /\ has_component(actor, "PositionComponent")
        /\ Apart(actor, b) <= 1}

\* C23: a process_interaction call for an event that names no target settles
\* on an entity the actor can reach such that no other entity it can reach
\* is strictly nearer; when the actor can reach none, the call appends
\* InteractionFailedEvent(actor, None, "Nothing to interact with") and
\* nothing else and changes no component.
C23_ResolvesNearestInReach ==
    [][(InteractionProcessed /\ events[1].target = NoEntity) =>
          LET actor == events[1].actor IN
          IF Reachable(actor) = {}
          THEN /\ lastCall'.emitted =
                      <<InteractionFailedEvent(actor, NoEntity, "Nothing to interact with")>>
               /\ ~lastCall'.ok
               /\ components' = components
          ELSE /\ lastCall'.target \in Reachable(actor)
               /\ \A other \in Reachable(actor) :
                      Apart(actor, other) >= Apart(actor, lastCall'.target)]_vars

\* C34: a process_interaction call that succeeds on an unlocked door (a
\* target whose InteractableComponent is of type "door" and that has a
\* DoorComponent) negates the door's is_open, leaves locked as it was and,
\* if the door has a RenderableComponent, sets its ascii_char to '-' exactly
\* when the door is now open and to '+' otherwise; since every such call
\* negates is_open, two successive ones restore it.  A call on a locked
\* door returns False without raising, leaves the DoorComponent, the
\* RenderableComponent and the interaction_count as they were, and appends
\* exactly one event, an InteractionFailedEvent for the door.
C34_DoorTogglesUnlessLocked ==
    [][\A door \in Bodies :
          (/\ InteractionProcessed
           /\ lastCall'.target = door
           /\ has_component(door, "InteractableComponent")
           /\ get_component(door, "InteractableComponent").interaction_type = "door"
           /\ has_component(door, "DoorComponent"))
          => LET door_comp == get_component(door, "DoorComponent")
                 renderable == get_component(door, "RenderableComponent")
                 interactable == get_component(door, "InteractableComponent")
             IN /\ (lastCall'.ok /\ ~door_comp.locked) =>
                      /\ get_component(door, "DoorComponent")'.is_open = ~door_comp.is_open
                      /\ get_component(door, "DoorComponent")'.locked = door_comp.locked
                      /\ has_component(door, "RenderableComponent") =>
                            get_component(door, "RenderableComponent")'.ascii_char =
                                (IF get_component(door, "DoorComponent")'.is_open
                                 THEN "-" ELSE "+")
                /\ door_comp.locked =>
                      /\ ~lastCall'.ok
                      /\ ~lastCall'.raised
                      /\ get_component(door, "DoorComponent")' = door_comp
                      /\ get_component(door, "RenderableComponent")' = renderable
                      /\ get_component(door, "InteractableComponent")'.interaction_count =
                             interactable.interaction_count
                      /\ Len(lastCall'.emitted) = 1
                      /\ lastCall'.emitted[1].type = "InteractionFailedEvent"
                      /\ lastCall'.emitted[1].target = door
                      /\ events' = events \o lastCall'.emitted]_vars

\* a door that started closed was used twice with success: it is closed
\* again and drawn '+'
C34_Witness ==
    /\ lastCall.op = "process_interaction"
    /\ lastCall.target = Fixture
    /\ lastCall.ok
    /\ has_component(Fixture, "InteractableComponent")
    /\ has_component(Fixture, "DoorComponent")
    /\ has_component(Fixture, "RenderableComponent")
    /\ get_component(Fixture, "InteractableComponent").interaction_type = "door"
    /\ get_component(Fixture, "InteractableComponent").interaction_count = 2
    /\ ~get_component(Fixture, "DoorComponent").is_open
    /\ ~get_component(Fixture, "DoorComponent").locked
    /\ get_component(Fixture, "RenderableComponent").ascii_char = "+"

\* a locked door within reach was tried and refused
C34_LockedRefused ==
    /\ lastCall.op = "process_interaction"
    /\ lastCall.target = Fixture
    /\ lastCall.emitted = <<InteractionFailedEvent(Actor, Fixture, "Door is locked")>>
    /\ has_component(Fixture, "DoorComponent")
    /\ has_component(Fixture, "RenderableComponent")
    /\ get_component(Fixture, "DoorComponent").locked
    /\ ~get_component(Fixture, "DoorComponent").is_open
    /\ get_component(Fixture, "RenderableComponent").ascii_char = "|"

\* ======================================================= StatusEffectSystem
\* The World with the StatusEffectSystem registered (src/ecs_systems.py).

MaxDuration == 3   \* longest duration_remaining an effect starts with

HealthComponent(current_hp, max_hp) ==
    [type |-> "HealthComponent", current_hp |-> current_hp, max_hp |-> max_hp]
\* probabilities are kept in percent: 10 is the 0.1 of the defaults, 100 the
\* torch's ignition_chance of 1.0
FlammableComponent(ignition_chance, burn_damage) ==
    [type |-> "FlammableComponent", ignition_chance |-> ignition_chance,
     burn_damage |-> burn_damage]
\* the StatusEffectComponent subclasses, constructed with their effect_type
\* given (it is the first field and has no default; __post_init__ sets it)
PoisonedComponent(duration_remaining, damage_per_turn, source) ==
    [type |-> "PoisonedComponent", effect_type |-> "poisoned",
     duration_remaining |-> duration_remaining, source |-> source,
     damage_per_turn |-> damage_per_turn]
OnFireComponent(duration_remaining, fire_damage, spread_chance, source) ==
    [type |-> "OnFireComponent", effect_type |-> "on_fire",
     duration_remaining |-> duration_remaining, source |-> source,
     fire_damage |-> fire_damage, spread_chance |-> spread_chance]
WetComponent(duration_remaining) ==
    [type |-> "WetComponent", effect_type |-> "wet",
     duration_remaining |-> duration_remaining, source |-> NoEntity]
BlessedComponent(duration_remaining, bonus_amount) ==
    [type |-> "BlessedComponent", effect_type |-> "blessed",
     duration_remaining |-> duration_remaining, source |-> NoEntity,
     bonus_amount |-> bonus_amount]
CursedComponent(duration_remaining, penalty_amount) ==
    [type |-> "CursedComponent", effect_type |-> "cursed",
     duration_remaining |-> duration_remaining, source |-> NoEntity,
     penalty_amount |-> penalty_amount]

\* StatusEffectComponent.is_permanent / is_expired
is_permanent(effect) == effect.duration_remaining = -1
is_expired(effect) == effect.duration_remaining = 0

DamageEvent(target, damage, damage_type, source) ==
    [type |-> "DamageEvent", target |-> target, damage |-> damage,
     damage_type |-> damage_type, source |-> source]

\* random.random() < chance: what the comparison can give
Roll(chance) ==
    IF chance <= 0 THEN {FALSE}
    ELSE IF chance >= 100 THEN {TRUE}
    ELSE BOOLEAN

\* the orders in which a for loop can visit a set
Orders(set) ==
    {order \in [1..Cardinality(set) -> set] :
        \A i \in DOMAIN order, j \in DOMAIN order : order[i] = order[j] => i = j}

\* the cache after get_entities_with_components(*component_types), called
\* on a cache and on the tables as they are
CacheWithQuery(cache, component_types) ==
    LET cache_key == Range(component_types)
    IN [k \in (DOMAIN cache) \cup {cache_key} |->
           IF k \in DOMAIN cache THEN cache[k] ELSE ComputeQuery(component_types)]

\* _process_poison: the entities whose poison is applied, and the events
\* appended when the loop visits them in a given order
poisoned_entities == QueryReturn(<<"PoisonedComponent", "HealthComponent">>)

Poisoning ==
    {entity \in poisoned_entities :
        /\ Truthy(get_component(entity, "PoisonedComponent"))
        /\ ~is_expired(get_component(entity, "PoisonedComponent"))}

_process_poison(order) ==
    [i \in DOMAIN order |->
        LET poison == get_component(order[i], "PoisonedComponent")
        IN DamageEvent(order[i], poison.damage_per_turn, "poison", poison.source)]

\* _process_fire: the entities whose fire is applied
burning_entities == QueryReturn(<<"OnFireComponent", "HealthComponent">>)

Burning ==
    {entity \in burning_entities :
        /\ Truthy(get_component(entity, "OnFireComponent"))
        /\ ~is_expired(get_component(entity, "OnFireComponent"))}

\* _try_spread_fire: the entities the scan of the 8 neighbouring cells rolls
\* for: flammable, positioned on one of those cells, not on fire
Kindled(burning_entity) ==
    LET position == get_component(burning_entity, "PositionComponent")
        nearby_entities == QueryReturn(<<"PositionComponent", "FlammableComponent">>)
    IN {nearby_entity \in nearby_entities :
           LET nearby_pos == get_component(nearby_entity, "PositionComponent")
           IN /\ \E dx \in {-1, 0, 1}, dy \in {-1, 0, 1} :
                    /\ ~(dx = 0 /\ dy = 0)
                    /\ nearby_pos.x = position.x + dx
                    /\ nearby_pos.y = position.y + dy
              /\ ~has_component(nearby_entity, "OnFireComponent")}

\* _process_fire with the loop visiting the burning entities in a given
\* order, from the i-th on.  spread[entity]: the outcome of
\* random.random() < fire.spread_chance; ignite[<<entity, nearby_entity>>]:
\* the outcome of random.random() < flammable.ignition_chance.  On an
\* ignition _try_spread_fire evaluates
\*     OnFireComponent(duration_remaining=5, fire_damage=..., source=...)
\* which raises TypeError (effect_type is not given), so nothing is attached
\* and the exception leaves _process_fire.  The result: the events appended,
\* whether the exception was raised, whether _try_spread_fire queried.
RECURSIVE _process_fire(_, _, _, _)
_process_fire(order, i, spread, ignite) ==
    IF i > Len(order)
    THEN [emitted |-> <<>>, raised |-> FALSE, queried |-> FALSE]
    ELSE LET entity == order[i]
             fire == get_component(entity, "OnFireComponent")
             damage == DamageEvent(entity, fire.fire_damage, "fire", fire.source)
             spreads == spread[entity] /\ Truthy(get_component(entity, "PositionComponent"))
         IN IF spreads /\ \E nearby_entity \in Kindled(entity) : ignite[<<entity, nearby_entity>>]
            THEN [emitted |-> <<damage>>, raised |-> TRUE, queried |-> TRUE]
            ELSE LET rest == _process_fire(order, i + 1, spread, ignite)
                 IN [emitted |-> <<damage>> \o rest.emitted, raised |-> rest.raised,
                     queried |-> spreads \/ rest.queried]

\* the rolls _process_fire can see
SpreadRolls ==
    {spread \in [Burning -> BOOLEAN] :
        \A entity \in Burning :
            spread[entity] \in Roll(get_component(entity, "OnFireComponent").spread_chance)}

IgniteRolls ==
    LET flammable_entities == QueryReturn(<<"PositionComponent", "FlammableComponent">>)
    IN {ignite \in [Burning \X flammable_entities -> BOOLEAN] :
           \A entity \in Burning, nearby_entity \in flammable_entities :
               ignite[<<entity, nearby_entity>>]
                   \in Roll(get_component(nearby_entity, "FlammableComponent").ignition_chance)}

\* _update_effect_durations
status_components ==
    <<"PoisonedComponent", "OnFireComponent", "BlessedComponent", "CursedComponent",
      "WetComponent">>

\* _update_effect_durations from the i-th component type on, on the tables
\* and the cache the earlier types left: the query, then for every entity
\* found a decrement unless the effect is permanent, and remove_component
\* (which clears the cache) when the decrement reaches 0
RECURSIVE _update_effect_durations(_, _, _)
_update_effect_durations(i, tables, cache) ==
    IF i > Len(status_components)
    THEN [tables |-> tables, cache |-> cache]
    ELSE LET component_type == status_components[i]
             cache_key == {component_type}
             holders == IF component_type \in DOMAIN tables
                        THEN DOMAIN tables[component_type] ELSE {}
             found == IF cache_key \in DOMAIN cache THEN cache[cache_key] ELSE holders
             queried == [k \in (DOMAIN cache) \cup {cache_key} |->
                            IF k = cache_key THEN found ELSE cache[k]]
             ticking == {entity \in found \cap holders :
                            ~is_permanent(tables[component_type][entity])}
             expiring == {entity \in ticking :
                            tables[component_type][entity].duration_remaining - 1 = 0}
             next == IF component_type \in DOMAIN tables
                     THEN [tables EXCEPT ![component_type] =
                              [entity \in holders \ expiring |->
                                  IF entity \in ticking
                                  THEN [tables[component_type][entity]
                                           EXCEPT !.duration_remaining = @ - 1]
                                  ELSE tables[component_type][entity]]]
                     ELSE tables
         IN _update_effect_durations(i + 1, next,
                                     IF expiring = {} THEN queried ELSE _invalidate_cache)

\* the record of one StatusEffectSystem.update call
EffectsCall(raised, emitted) ==
    [op |-> "StatusEffectSystem.update", raised |-> raised, emitted |-> emitted]

\* World.update's loop iteration for the StatusEffectSystem, whose update is
\*     self._process_poison(world, dt); self._process_fire(world, dt)
\*     self._process_blessings(world, dt); self._process_curses(world, dt)
\*     self._update_effect_durations(world)
\* an exception that leaves _process_fire leaves update, before
\* _update_effect_durations, and is caught by World.update
StatusEffectSystemUpdate ==
    /\ pos # 0
    /\ pos <= Len(systems)
    /\ \E poison_order \in Orders(Poisoning), fire_order \in Orders(Burning),
          spread \in SpreadRolls, ignite \in IgniteRolls :
          LET poison == _process_poison(poison_order)
              after_poison == CacheWithQuery(_entity_cache,
                                             <<"PoisonedComponent", "HealthComponent">>)
              fire == _process_fire(fire_order, 1, spread, ignite)
              after_fire ==
                  LET burning == CacheWithQuery(after_poison,
                                                <<"OnFireComponent", "HealthComponent">>)
                  IN IF fire.queried
                     THEN CacheWithQuery(burning, <<"PositionComponent", "FlammableComponent">>)
                     ELSE burning
              emitted == poison \o fire.emitted
              durations == _update_effect_durations(1, components, after_fire)
          IN /\ events' = events \o emitted
             /\ components' = IF fire.raised THEN components ELSE durations.tables
             /\ _entity_cache' = IF fire.raised THEN after_fire ELSE durations.cache
             /\ lastCall' = EffectsCall(fire.raised, emitted)
             /\ passLog' = Append(passLog, LogEntry(fire.raised))
    /\ pos' = pos + 1
    /\ UNCHANGED <<entities, systems, issued, destroyed, _next_update_id>>

\* the entity whose fire is followed, the entity next to it that may be
\* flammable, and the other creatures that suffer an effect
Burner == Mover
Kindling == CHOOSE b \in Bodies \ {Burner} : \A other \in Bodies \ {Burner} : b <= other
Sufferers == Bodies \ {Burner, Kindling}

\* the durations an effect can have when a tick starts: permanent, expired,
\* or 1..MaxDuration turns
Durations == {-1} \cup (0..MaxDuration)

\* a fire of any duration whose spread roll never, sometimes or always
\* succeeds, on an entity with health; or the default fire on one without
BurnerKits ==
    {{OnFireComponent(d, 1, spread_chance, NoEntity), HealthComponent(10, 10)} :
        d \in Durations, spread_chance \in {0, 10, 100}}
    \cup {{OnFireComponent(d, 1, 10, NoEntity)} : d \in Durations}

\* flammable by default (FlammableComponent()), as a torch
\* (ignition_chance=1.0, burn_damage=2), or not; wet, blessed, cursed or
\* none of these; already burning, with health or without, or not burning
KindlingKits ==
    {flammable \cup fire \cup passive :
        flammable \in {{}, {FlammableComponent(10, 1)}, {FlammableComponent(100, 2)}},
        fire \in {{HealthComponent(10, 10)},
                  {OnFireComponent(1, 1, 10, NoEntity)},
                  {OnFireComponent(1, 1, 10, NoEntity), HealthComponent(10, 10)}},
        passive \in {{}, {WetComponent(-1)}, {BlessedComponent(2, 1)},
                     {CursedComponent(-1, 1)}}}

\* burning, or poisoned for two turns, for no turn, or for good
SuffererKits ==
    {{HealthComponent(10, 10), OnFireComponent(2, 1, 0, NoEntity)}}
    \cup {{HealthComponent(10, 10), PoisonedComponent(d, 1, NoEntity)} : d \in {2, 0, -1}}

\* The room as its builder left it: the burner in its corner, the kindling
\* on the row next to it, the sufferers beside the burner; the
\* StatusEffectSystem is registered and no update has run.
InitFire ==
    \E burner \in BurnerKits, kindling \in KindlingKits, kx \in Cells,
       sufferer \in [Sufferers -> SuffererKits] :
        \* sufferers share a cell and differ by kit only: one order of kits
        /\ \A a \in Sufferers, b \in Sufferers :
               a <= b => \A ca \in sufferer[a], cb \in sufferer[b] :
                             (ca.type = "PoisonedComponent" /\ cb.type = "PoisonedComponent")
                                 => ca.duration_remaining <= cb.duration_remaining
        /\ \A a \in Sufferers, b \in Sufferers :
               (a <= b /\ \E ca \in sufferer[a] : ca.type = "OnFireComponent")
                   => sufferer[a] = sufferer[b]
        /\ entities = Bodies
        /\ issued = Bodies
        /\ destroyed = {}
        /\ components = TablesOf([b \in Bodies |->
                            IF b = Burner THEN {PositionComponent(0, 0)} \cup burner
                            ELSE IF b = Kindling THEN {PositionComponent(kx, 1)} \cup kindling
                            ELSE {PositionComponent(1, 0)} \cup sufferer[b]])
        /\ systems = <<1>>
        /\ events = <<>>
        /\ _entity_cache = EmptyDict
        /\ _next_update_id = 0
        /\ lastCall = Call("add_system", NoEntity, None, {}, {}, TRUE, FALSE, None, <<>>)
        /\ pos = 0
        /\ passLog = <<>>

NextFire ==
    \/ UpdateBegin
    \/ StatusEffectSystemUpdate
    \/ UpdateEnd

SpecFire == InitFire /\ [][NextFire]_vars

\* ---------------------------------------- claims on the StatusEffectSystem

\* the step is a run of StatusEffectSystem.update
EffectsTicked == lastCall'.op = "StatusEffectSystem.update" /\ pos' = pos + 1

\* C17, tick by tick: in a tick that the StatusEffectSystem enters with a
\* fire effect of duration d >= 1 on an entity with health, the system
\* appends a DamageEvent against that entity for fire_damage, and at the
\* end of the tick the duration is d - 1, the component being gone when
\* that is 0; an entity that enters the tick without a fire effect gets no
\* fire damage and leaves the tick without one.  (A fire of duration d
\* therefore burns in d consecutive ticks and is absent from then on.)
C17_FireBurnsForItsDuration ==
    [][\A entity \in Bodies :
          EffectsTicked =>
              IF has_component(entity, "OnFireComponent")
              THEN LET fire == get_component(entity, "OnFireComponent")
                       d == fire.duration_remaining
                       damage == DamageEvent(entity, fire.fire_damage, "fire", fire.source)
                   IN (d >= 1 /\ has_component(entity, "HealthComponent")) =>
                          /\ Cardinality({i \in DOMAIN lastCall'.emitted :
                                             lastCall'.emitted[i] = damage}) = 1
                          /\ IF d = 1
                             THEN ~has_component(entity, "OnFireComponent")'
                             ELSE /\ has_component(entity, "OnFireComponent")'
                                  /\ get_component(entity, "OnFireComponent")'
                                         .duration_remaining = d - 1
              ELSE /\ \A i \in DOMAIN lastCall'.emitted :
                         ~(lastCall'.emitted[i].damage_type = "fire"
                           /\ lastCall'.emitted[i].target = entity)
                   /\ ~has_component(entity, "OnFireComponent")']_vars

\* the burning entities next to a neighbour whose fire is sure to reach it:
\* on an entity with health, not expired, with a spread roll that cannot fail
Igniters(neighbour) ==
    {entity \in Bodies \ {neighbour} :
        /\ has_component(entity, "OnFireComponent")
        /\ has_component(entity, "HealthComponent")
        /\ get_component(entity, "OnFireComponent").duration_remaining # 0
        /\ get_component(entity, "OnFireComponent").spread_chance >= 100
        /\ Apart(entity, neighbour) = 1}

\* the entities sure to catch a fire that reaches them
Tinder ==
    {neighbour \in Bodies :
        /\ has_component(neighbour, "FlammableComponent")
        /\ get_component(neighbour, "FlammableComponent").ignition_chance >= 100
        /\ ~has_component(neighbour, "OnFireComponent")}

EffectKinds ==
    {"PoisonedComponent", "OnFireComponent", "BlessedComponent", "CursedComponent",
     "WetComponent"}

\* C29, tick by tick: in a run of the StatusEffectSystem an effect of any
\* of the five kinds that is permanent (duration -1) when the run starts is
\* there unchanged when it ends, and an effect with duration d >= 1 when the
\* run starts has duration d - 1 when it ends (being removed when that
\* is 0).
C29_PermanentStaysOthersCountDown ==
    [][EffectsTicked =>
          \A entity \in Bodies, kind \in EffectKinds :
              has_component(entity, kind) =>
                  LET effect == get_component(entity, kind)
                      d == effect.duration_remaining
                  IN /\ d = -1 => /\ has_component(entity, kind)'
                                  /\ get_component(entity, kind)' = effect
                     /\ d >= 1 => IF d = 1
                                  THEN ~has_component(entity, kind)'
                                  ELSE /\ has_component(entity, kind)'
                                       /\ get_component(entity, kind)'
                                              = [effect EXCEPT !.duration_remaining = d - 1]]_vars

\* the DamageEvents of an effect's kind that a run emitted against an entity
PeriodicDamage(entity, kind, emitted) ==
    {i \in DOMAIN emitted :
        /\ emitted[i].type = "DamageEvent"
        /\ emitted[i].target = entity
        /\ emitted[i].damage_type = (IF kind = "PoisonedComponent" THEN "poison" ELSE "fire")}

\* C27, tick by tick: an effect that has duration 0 when a run of the
\* StatusEffectSystem starts deals no periodic damage in that run and is
\* there with duration -1 when the run ends; an effect with duration -1
\* deals its periodic damage in the run (poison and fire on an entity with
\* health: one DamageEvent) and is there with duration -1 when the run ends;
\* and an effect that is gone when the run ends had duration 1 when it
\* started.
C27_ZeroDurationTurnsPermanent ==
    [][EffectsTicked =>
          \A entity \in Bodies, kind \in EffectKinds :
              has_component(entity, kind) =>
                  LET effect == get_component(entity, kind)
                      d == effect.duration_remaining
                      periodic == PeriodicDamage(entity, kind, lastCall'.emitted)
                      damaging == /\ kind \in {"PoisonedComponent", "OnFireComponent"}
                                  /\ has_component(entity, "HealthComponent")
                  IN /\ d = 0 => /\ damaging => periodic = {}
                                 /\ has_component(entity, kind)'
                                 /\ get_component(entity, kind)'.duration_remaining = -1
                     /\ d = -1 => /\ damaging => Cardinality(periodic) = 1
                                  /\ has_component(entity, kind)'
                                  /\ get_component(entity, kind)'.duration_remaining = -1
                     /\ ~has_component(entity, kind)' => d = 1]_vars

DamageAppliedEvent(target, actual_damage, entity_died) ==
    [type |-> "DamageAppliedEvent", target |-> target, actual_damage |-> actual_damage,
     entity_died |-> entity_died]
HealEvent(target, amount, source) ==
    [type |-> "HealEvent", target |-> target, amount |-> amount, source |-> source]
HealingAppliedEvent(target, actual_healing) ==
    [type |-> "HealingAppliedEvent", target |-> target, actual_healing |-> actual_healing]
EntityDeathEvent(entity, killer) ==
    [type |-> "EntityDeathEvent", entity |-> entity, killer |-> killer]

\* HealthComponent.is_alive, .damage and .heal (the component after the call)
is_alive(health) == health.current_hp > 0
HealthComponent_damage(health, amount) ==
    [health EXCEPT !.current_hp = IF health.current_hp - amount >= 0
                                  THEN health.current_hp - amount ELSE 0]
HealthComponent_heal(health, amount) ==
    [health EXCEPT !.current_hp = IF health.current_hp + amount <= health.max_hp
                                  THEN health.current_hp + amount ELSE health.max_hp]

\* world.get_component(target, HealthComponent) on the tables as the loop
\* has left them (the component is changed in place)
HealthOf(tables, target) ==
    IF "HealthComponent" \in DOMAIN tables
    THEN DictGet(tables["HealthComponent"], target)
    ELSE None

\* process_damage: the tables after it and the events it appends
process_damage(tables, damage_event) ==
    LET target == damage_event.target
        health == HealthOf(tables, target)
    IN IF ~Truthy(health) \/ ~is_alive(health)
       THEN [tables |-> tables, emitted |-> <<>>]
       ELSE LET after == HealthComponent_damage(health, damage_event.damage)
                actual_damage == health.current_hp - after.current_hp
            IN [tables |-> [tables EXCEPT !["HealthComponent"] = DictSet(@, target, after)],
                emitted |->
                    <<DamageAppliedEvent(target, actual_damage, after.current_hp <= 0)>>
                    \o (IF after.current_hp <= 0
                        THEN <<EntityDeathEvent(target, damage_event.source)>>
                        ELSE <<>>)]

\* process_healing: the tables after it and the events it appends
process_healing(tables, heal_event) ==
    LET target == heal_event.target
        health == HealthOf(tables, target)
    IN IF ~Truthy(health)
       THEN [tables |-> tables, emitted |-> <<>>]
       ELSE LET after == HealthComponent_heal(health, heal_event.amount)
                actual_healing == after.current_hp - health.current_hp
            IN [tables |-> [tables EXCEPT !["HealthComponent"] = DictSet(@, target, after)],
                emitted |-> <<HealingAppliedEvent(target, actual_healing)>>]

\* HealthSystem.update's loop over world.events from the i-th event on.  The
\* loop runs over the list the calls append to, so it also visits what they
\* appended: events that are neither a DamageEvent nor a HealEvent.
RECURSIVE HealthEvents(_, _, _)
HealthEvents(i, tables, emitted) ==
    IF i > Len(events)
    THEN [tables |-> tables, emitted |-> emitted]
    ELSE LET event == events[i]
             done == IF event.type = "DamageEvent" THEN process_damage(tables, event)
                     ELSE IF event.type = "HealEvent" THEN process_healing(tables, event)
                     ELSE [tables |-> tables, emitted |-> <<>>]
         IN HealthEvents(i + 1, done.tables, emitted \o done.emitted)

\* _check_for_deaths: the entities it reports, on the tables the loop left
entities_with_health == QueryReturn(<<"HealthComponent">>)

Deceased(tables) ==
    {entity \in entities_with_health :
        /\ Truthy(HealthOf(tables, entity))
        /\ ~is_alive(HealthOf(tables, entity))}

_check_for_deaths(order) ==
    [i \in 1..Len(order) |-> EntityDeathEvent(order[i], NoEntity)]

HealthCall(emitted) ==
    [op |-> "HealthSystem.update", raised |-> FALSE, emitted |-> emitted]

\* World.update's loop iteration for the HealthSystem, whose update is
\*     for event in world.events: process_damage / process_healing
\*     self._check_for_deaths(world)
\* the for loop of _check_for_deaths visits a set, in some order
HealthSystemUpdate ==
    /\ pos # 0
    /\ pos <= Len(systems)
    /\ LET handled == HealthEvents(1, components, <<>>)
       IN \E order \in Orders(Deceased(handled.tables)) :
             LET emitted == handled.emitted \o _check_for_deaths(order)
             IN /\ events' = events \o emitted
                /\ components' = handled.tables
                /\ _entity_cache' = CacheWithQuery(_entity_cache, <<"HealthComponent">>)
                /\ lastCall' = HealthCall(emitted)
    /\ passLog' = Append(passLog, LogEntry(FALSE))
    /\ pos' = pos + 1
    /\ UNCHANGED <<entities, systems, issued, destroyed, _next_update_id>>

\* World.update's loop iteration for the MovementSystem and for the
\* InteractionSystem when the queue holds no MoveEvent and no
\* InteractionEvent: their update is a loop over world.events that passes
\* over every event
PassesOver ==
    /\ pos # 0
    /\ pos <= Len(systems)
    /\ \A i \in DOMAIN events : events[i].type \notin {"MoveEvent", "InteractionEvent"}
    /\ UNCHANGED <<entities, components, systems, events, _entity_cache, issued,
                   destroyed, _next_update_id>>
    /\ lastCall' = [op |-> "System.update", raised |-> FALSE, emitted |-> <<>>]
    /\ passLog' = Append(passLog, LogEntry(FALSE))
    /\ pos' = pos + 1

\* the same systems with the StatusEffectSystem registered before the
\* HealthSystem
_setup_core_systems_StatusFirst ==
    <<"MovementSystem", "StatusEffectSystem", "HealthSystem", "InteractionSystem">>

\* ECSGameManager._setup_core_systems: the systems in the order of the
\* add_system calls (create_basic_systems has the same order after its
\* RenderSystem)
_setup_core_systems ==
    <<"MovementSystem", "HealthSystem", "StatusEffectSystem", "InteractionSystem">>

\* World.update's loop iteration, by the class of the system it has reached
CoreSystemUpdate ==
    /\ pos # 0
    /\ pos <= Len(systems)
    /\ \/ systems[pos] = "HealthSystem" /\ HealthSystemUpdate
       \/ systems[pos] = "StatusEffectSystem" /\ StatusEffectSystemUpdate
       \/ systems[pos] \in {"MovementSystem", "InteractionSystem"} /\ PassesOver

\* the creature that is hit and healed, the entity next to it, and the rest
Victim == Mover
Second == CHOOSE b \in Bodies \ {Victim} : \A other \in Bodies \ {Victim} : b <= other

\* a creature in good health or wounded, or a thing without health; on fire
\* for two turns or for good, poisoned, or neither
VictimKits ==
    {health \cup effect :
        health \in {{}, {HealthComponent(1, 2)}, {HealthComponent(2, 2)}},
        effect \in {{}, {OnFireComponent(2, 1, 10, NoEntity)},
                   {OnFireComponent(-1, 1, 100, NoEntity)},
                   {PoisonedComponent(2, 1, NoEntity)}}}

\* the entities around it: scenery, a torch, or a poisoned creature
BystanderKits ==
    {{}, {FlammableComponent(100, 2)},
     {HealthComponent(1, 2), PoisonedComponent(-1, 1, NoEntity)}}

\* The level as the game manager set it up: the core systems registered,
\* the victim with its neighbours around it, no update run yet.
InitCore ==
    \E victim \in VictimKits, bystander \in [Bodies \ {Victim} -> BystanderKits] :
        \* bystanders share a cell and differ by kit only: torches first,
        \* creatures last
        /\ \A a \in Bodies \ {Victim}, b \in Bodies \ {Victim} :
               a <= b => Cardinality(bystander[a]) <= Cardinality(bystander[b])
        /\ entities = Bodies
        /\ issued = Bodies
        /\ destroyed = {}
        /\ components = TablesOf([b \in Bodies |->
                            IF b = Victim THEN {PositionComponent(0, 0)} \cup victim
                            ELSE {PositionComponent(1, 0)} \cup bystander[b]])
        /\ systems = _setup_core_systems
        /\ events = <<>>
        /\ _entity_cache = EmptyDict
        /\ _next_update_id = 0
        /\ lastCall = Call("add_system", NoEntity, None, {}, {}, TRUE, FALSE, None, <<>>)
        /\ pos = 0
        /\ passLog = <<>>

\* an attack or a trap: world.add_event(DamageEvent(target, damage, "physical"))
QueueDamage(target, damage) ==
    /\ Len(events) < MaxEvents
    /\ _next_update_id < MaxTicks
    /\ CallerContext(add_event(DamageEvent(target, damage, "physical", NoEntity)))

\* a potion: world.add_event(HealEvent(target, amount))
QueueHeal(target, amount) ==
    /\ Len(events) < MaxEvents
    /\ _next_update_id < MaxTicks
    /\ CallerContext(add_event(HealEvent(target, amount, NoEntity)))

NextCore ==
    \/ \E target \in {Victim, Second}, damage \in {1, 2} : QueueDamage(target, damage)
    \/ QueueHeal(Victim, 1)
    \/ UpdateBegin
    \/ CoreSystemUpdate
    \/ UpdateEnd

SpecCore == InitCore /\ [][NextCore]_vars

\* -------------------------------------------------- claims on the core systems

\* the entities that a system run of the current update brought to 0 hit
\* points
KilledInThisUpdate ==
    {entity \in Bodies :
        \E i \in DOMAIN passLog : \E j \in DOMAIN passLog[i].emitted :
            LET event == passLog[i].emitted[j]
            IN /\ event.type = "DamageAppliedEvent"
               /\ event.target = entity
               /\ event.entity_died}

\* C24, with one full update as the bound: when World.update returns with
\* the core systems registered, no entity is left in the HealthComponent
\* table with current_hp 0 unless it was brought to 0 in this very update;
\* one that was at 0 when the update began has been destroyed, which takes
\* it out of the live set and out of every component table.
C24_DeadEntitiesAreDestroyed ==
    UpdateReturned =>
        \A entity \in Bodies :
            (/\ has_component(entity, "HealthComponent")
             /\ get_component(entity, "HealthComponent").current_hp = 0)
                => entity \in KilledInThisUpdate

\* the events that StatusEffectSystem runs of the current update appended
StatusEmitted ==
    UNION {Range(passLog[i].emitted) :
              i \in {j \in DOMAIN passLog : passLog[j].system = "StatusEffectSystem"}}

\* the current_hp of an entity in a components value (-1: no HealthComponent)
HpIn(tables, entity) ==
    IF Truthy(HealthOf(tables, entity)) THEN HealthOf(tables, entity).current_hp ELSE -1

====
